---- MODULE Spec2Model ----
(***************************************************************************)
(* EcoShop browser extension: the content script (extension/content.js),   *)
(* the popup, and the service worker that answers their checkSustainability*)
(* messages, in its three versions: the production worker, the development *)
(* variant kept as a backup, and extension/service_worker.js.              *)
(* Text is modelled as a sequence of one-character strings; JavaScript     *)
(* null/undefined text is the one-element sequence NullStr.                *)
(***************************************************************************)
EXTENDS Integers, Sequences, FiniteSets, TLC

\* ------------------------------------------------------------------ bounds
MaxChecks == 2        \* handleSustainabilityCheck invocations in one run
MaxNav == 1           \* page navigations (location.href changes) in one run
maxAttempts == 2      \* pollForUpdates attempt budget (30 in the source)

\* --------------------------------------------------------------- text values
NullStr == <<"null">>
EmptyStr == <<>>

Truthy(s) == s # NullStr /\ s # EmptyStr

LowerLetters == <<"a","b","c","d","e","f","g","h","i","j","k","l","m",
                  "n","o","p","q","r","s","t","u","v","w","x","y","z">>
UpperLetters == <<"A","B","C","D","E","F","G","H","I","J","K","L","M",
                  "N","O","P","Q","R","S","T","U","V","W","X","Y","Z">>

LowerChar(ch) ==
  IF \E i \in 1..26 : UpperLetters[i] = ch
  THEN LowerLetters[CHOOSE i \in 1..26 : UpperLetters[i] = ch]
  ELSE ch

UpperChar(ch) ==
  IF \E i \in 1..26 : LowerLetters[i] = ch
  THEN UpperLetters[CHOOSE i \in 1..26 : LowerLetters[i] = ch]
  ELSE ch

toLowerCase(s) == [i \in 1..Len(s) |-> LowerChar(s[i])]

RECURSIVE TrimStart(_)
TrimStart(s) == IF s # <<>> /\ Head(s) = " " THEN TrimStart(Tail(s)) ELSE s

RECURSIVE TrimEnd(_)
TrimEnd(s) ==
  IF s # <<>> /\ s[Len(s)] = " " THEN TrimEnd(SubSeq(s, 1, Len(s) - 1)) ELSE s

trim(s) == TrimEnd(TrimStart(s))

\* ------------------------------------------------------------ page contents
\* What document.querySelector finds on the page: the text of the first brand
\* selector and of the first name selector that match an element with
\* non-blank text, and the content of the brand and title meta tags.
Page(sb, sn, mb, mn) == [selBrand |-> sb, selName |-> sn, metaBrand |-> mb, metaName |-> mn]

EmptyPage == Page(NullStr, NullStr, NullStr, NullStr)
PageS == Page(<<"S">>, <<"x">>, NullStr, NullStr)
PageLower == Page(<<" ", "s", " ">>, <<"x">>, NullStr, NullStr)
PageMeta == Page(NullStr, <<"x">>, <<" ", "S">>, NullStr)
PageNameOnly == Page(NullStr, <<"x">>, NullStr, NullStr)

Pages == {EmptyPage, PageS, PageLower, PageMeta, PageNameOnly}

\* a selector loop without its break: the last selector with text decides
lastHit(els) ==
  LET hits == { i \in 1..Len(els) : els[i] # NullStr /\ Truthy(trim(els[i])) }
  IN IF hits = {} THEN NullStr ELSE els[CHOOSE i \in hits : \A j \in hits : j <= i]

\* the selector loop over els, the textContent of the element that each
\* selector of the list matches (NullStr where querySelector finds none): the
\* text of the first element with non-blank text, and the break
firstHit(els) ==
  LET hits == { i \in 1..Len(els) : els[i] # NullStr /\ Truthy(trim(els[i])) }
  IN IF hits = {} THEN NullStr ELSE els[CHOOSE i \in hits : \A j \in hits : i <= j]

\* a page given by the elements of its brand and name selectors and its
\* brand and title meta tags
Document(brandEls, nameEls, mb, mn) ==
  [selBrand |-> firstHit(brandEls), selName |-> firstHit(nameEls),
   metaBrand |-> mb, metaName |-> mn, brandEls |-> brandEls, nameEls |-> nameEls]

UndefinedUrl == 0

\* name.includes(sub)
Includes(s, sub) ==
  \E i \in 1..(Len(s) - Len(sub) + 1) : SubSeq(s, i, i + Len(sub) - 1) = sub

knownBrands ==
  << <<"B","o","s","e">>, <<"S","o","n","y">>, <<"A","p","p","l","e">>,
     <<"S","a","m","s","u","n","g">>, <<"N","i","k","e">>,
     <<"A","d","i","d","a","s">>, <<"X","i","a","o","m","i">>,
     <<"H","u","a","w","e","i">>, <<"D","e","l","l">>, <<"H","P">>,
     <<"A","s","u","s">>, <<"A","c","e","r">> >>

\* the first known brand, in list order, that the name includes
KnownBrandIn(name) ==
  IF \E i \in 1..Len(knownBrands) : Includes(name, knownBrands[i])
  THEN knownBrands[CHOOSE i \in 1..Len(knownBrands) :
                     /\ Includes(name, knownBrands[i])
                     /\ \A j \in 1..(i - 1) : ~Includes(name, knownBrands[j])]
  ELSE NullStr

BracketStopwords ==
  { <<"N","e","w">>, <<"n","e","w">>, <<"N","E","W">>, <<"H","o","t">>,
    <<"S","a","l","e">>, <<"L","a","t","e","s","t">> }

BracketMaxLen == 15

\* name.match(/\[(.*?)\]/)[1]: the text between the leftmost "[" that has a
\* "]" after it and the nearest such "]"; NullStr when there is no match
BracketMatch(name) ==
  LET opens == { i \in 1..Len(name) :
                   name[i] = "[" /\ \E j \in (i + 1)..Len(name) : name[j] = "]" }
  IN IF opens = {} THEN NullStr
     ELSE LET i == CHOOSE a \in opens : \A b \in opens : a <= b
              j == CHOOSE a \in (i + 1)..Len(name) :
                     name[a] = "]" /\ \A b \in (i + 1)..(a - 1) : name[b] # "]"
          IN SubSeq(name, i + 1, j - 1)

\* first word of a name: name.split(' ')[0]
RECURSIVE FirstWord(_)
FirstWord(s) ==
  IF s = <<>> \/ Head(s) = " " THEN <<>> ELSE <<Head(s)>> \o FirstWord(Tail(s))

\* brand inference from the name: known brand, then bracket token, then the
\* capitalised first word
InferBrand(name) ==
  LET known == KnownBrandIn(name)
      m == BracketMatch(name)
      content == IF Truthy(m) THEN trim(m) ELSE NullStr
      bracket == IF Truthy(m) /\ Len(content) < BracketMaxLen
                    /\ content \notin BracketStopwords
                 THEN content ELSE NullStr
      w == FirstWord(name)
      first == IF w # <<>> /\ w[1] = UpperChar(w[1]) /\ Len(w) > 2 THEN w ELSE NullStr
  IN IF Truthy(known) THEN known
     ELSE IF Truthy(bracket) THEN bracket
     ELSE IF bracket = EmptyStr /\ ~Truthy(first) THEN EmptyStr
     ELSE first

extractProductInfo(page) ==
  LET b0 == IF page.selBrand # NullStr /\ Truthy(trim(page.selBrand))
            THEN trim(page.selBrand) ELSE NullStr
      n0 == IF page.selName # NullStr /\ Truthy(trim(page.selName))
            THEN trim(page.selName) ELSE NullStr
      fallback == ~Truthy(b0) \/ ~Truthy(n0)
      b1 == IF fallback /\ Truthy(page.metaBrand) THEN page.metaBrand ELSE b0
      n1 == IF fallback /\ Truthy(page.metaName) THEN page.metaName ELSE n0
      b2 == IF fallback /\ ~Truthy(b1) /\ Truthy(n1) THEN InferBrand(n1) ELSE b1
  IN [brand |-> b2, name |-> n1, url |-> UndefinedUrl]

\* a test that lets every record pass
DispatchableAlways(info) == TRUE

\* productInfo.brand || productInfo.name
Dispatchable(info) == Truthy(info.brand) \/ Truthy(info.name)


\* ------------------------------------------------------- gateway payloads
Absent == -1                  \* a score that is undefined / null
Scores == {35, 80}
NoPid == 0
Pid == 7                      \* a product_id handed out by POST /api/product
NoTab == 0                    \* sender.tab is undefined (the popup)
Tabs == {1}

Data(s, c, p) == [null |-> FALSE, score |-> s, certainty |-> c, product_id |-> p]
NullData == [null |-> TRUE, score |-> Absent, certainty |-> "none", product_id |-> NoPid]

\* what the backend may put in the data field of a response
Payloads ==
  {NullData} \cup { Data(s, c, NoPid) : s \in Scores \cup {Absent}, c \in {"high", "pending"} }

\* JSON bodies of POST /api/product
PostBodies ==
  [success : BOOLEAN, status : {"found", "processing", "other"},
   data : Payloads, product_id : {NoPid, Pid}]

\* JSON bodies of GET /api/score and of GET /api/product/{id}/status
FallbackBodies == [success : BOOLEAN, data : Payloads]
StatusBodies == [success : BOOLEAN, status : {"completed", "processing", "error"}, data : Payloads]

\* Error.message values thrown inside the service worker
ErrMissingBrand == "Missing brand name"
ErrNetwork == "Failed to fetch"
ErrAbort == "API request timed out"
ErrApiReturned == "API returned status"
ErrNoData == "No data available for this brand"
ErrInvalid == "Invalid response format from API"
ErrPollTimeout == "Analysis timed out - database connection may be unavailable"
ErrType == "Cannot read properties of undefined"
\* what fetch itself rejects with when the abort signal fires
ErrAborted == "The user aborted a request."

\* the error strings of the responses
RespDbRequired == "Database connection required for sustainability data"
RespNoData == "No sustainability data available"
RespInternal == "Internal error occurred"
MsgDbRequired == "This extension requires an active database connection."
NoText == "none"

Response(ok, d, e, m) == [success |-> ok, data |-> d, error |-> e, message |-> m]
NoResponse == [success |-> FALSE, data |-> NullData, error |-> "unsent", message |-> NoText]

\* ------------------------------------------------------------ popup (popup.js)
\* JavaScript numbers are IEEE-754 doubles.  The numbers the popup computes
\* are non-negative and below 2^12, so a number is modelled as a fixed-point
\* value with 60 fractional bits held in three limbs of 24 bits,
\* <<a, b, c>> standing for (a * 2^48 + b * 2^24 + c) / 2^60.  Every operation
\* rounds its exact result to 53 significant bits, ties to even, as the
\* double operation does.
Limb == 16777216              \* 2^24
IntUnit == 4096               \* 2^12: weight of the integer 1 in limb a
Significand == 53

RECURSIVE Pow2(_)
Pow2(n) == IF n = 0 THEN 1 ELSE 2 * Pow2(n - 1)

\* number of bits of a natural number
RECURSIVE BitLen(_)
BitLen(n) == IF n = 0 THEN 0 ELSE 1 + BitLen(n \div 2)

ZeroDouble == <<0, 0, 0>>
IsZero(x) == x = ZeroDouble

\* limbs brought back below 2^24 by carrying upward
Carried(a, b, c) ==
  LET b1 == b + c \div Limb
  IN <<a + b1 \div Limb, b1 % Limb, c % Limb>>

\* number of significant bits of x
Bits(x) ==
  IF x[1] > 0 THEN 48 + BitLen(x[1])
  ELSE IF x[2] > 0 THEN 24 + BitLen(x[2])
  ELSE BitLen(x[3])

\* round-to-nearest-even of the exact value x (plus a non-zero rest below its
\* last bit iff sticky) to 53 significant bits; the bits dropped all lie in
\* limb c because x has at most 72 bits
RoundDouble(x, sticky) ==
  LET k == Bits(x) - Significand
  IN IF k <= 0 THEN x
     ELSE LET unit == Pow2(k)
              half == Pow2(k - 1)
              low == x[3] % unit
              odd == (x[3] \div unit) % 2 = 1
              up == \/ low > half
                    \/ low = half /\ (sticky \/ odd)
          IN Carried(x[1], x[2], x[3] - low + (IF up THEN unit ELSE 0))

\* the double n / d for naturals n and 0 < d < 128: long division, one limb
\* at a time, then rounding
DivDouble(n, d) ==
  LET r0 == n % d
      a == (n \div d) * IntUnit + (r0 * IntUnit) \div d
      r1 == (r0 * IntUnit) % d
      b == (r1 * Limb) \div d
      r2 == (r1 * Limb) % d
      c == (r2 * Limb) \div d
      r3 == (r2 * Limb) % d
  IN RoundDouble(<<a, b, c>>, r3 # 0)

\* x + y in double arithmetic
AddDouble(x, y) == RoundDouble(Carried(x[1] + y[1], x[2] + y[2], x[3] + y[3]), FALSE)

\* x * 10 in double arithmetic
TimesTen(x) == RoundDouble(Carried(10 * x[1], 10 * x[2], 10 * x[3]), FALSE)

\* Math.ceil
Ceil(x) == x[1] \div IntUnit + (IF x[1] % IntUnit # 0 \/ x[2] # 0 \/ x[3] # 0 THEN 1 ELSE 0)

\* typeof metricData.score !== 'number'; also a composite that is undefined
Undefined == -100
\* data.sustainability_breakdown || data.breakdown is falsy
NoBreakdown == <<>>
\* weights are held in half units (2 is the weight 1, 10 the weight 5);
\* 0 stands for a weight that is missing from the settings
MissingWeight == 0
DefaultWeight == 10

\* userWeights[key] || 5
fieldWeight(w) == IF w = MissingWeight THEN DefaultWeight ELSE w

\* totalWeight, in half units
totalWeight(weights) == fieldWeight(weights[1]) + fieldWeight(weights[2]) + fieldWeight(weights[3])

\* calculationScore: scores below 0 and missing scores count as 0
calculationScore(score) == IF score # Undefined /\ score >= 0 THEN score ELSE 0

\* summaryScore = calculationScore * userWeight / totalWeight
summaryScore(score, w, total) == DivDouble(calculationScore(score) * fieldWeight(w), total)

\* weightedSum after the forEach over fieldOrder
weightedSum(breakdown, weights) ==
  IF breakdown = NoBreakdown THEN ZeroDouble
  ELSE LET total == totalWeight(weights)
           s1 == AddDouble(ZeroDouble, summaryScore(breakdown[1], weights[1], total))
           s2 == AddDouble(s1, summaryScore(breakdown[2], weights[2], total))
       IN AddDouble(s2, summaryScore(breakdown[3], weights[3], total))

\* mainScore = weightedSum > 0 ? Math.ceil(weightedSum * 10) : undefined
compositeOf(sum) == IF ~IsZero(sum) THEN Ceil(TimesTen(sum)) ELSE Undefined

mainScoreOf(breakdown, weights) == compositeOf(weightedSum(breakdown, weights))

\* scoreValueElement.textContent
UnknownText == <<"Unknown", 0>>
NoScoreText == <<"none", 0>>
scoreTextOf(score) == IF score # Undefined THEN <<"number", score>> ELSE UnknownText

\* getScoreColor: '#ccc' for null, undefined and NaN
getScoreColor(score) ==
  IF score = Undefined THEN "grey"
  ELSE IF score >= 70 THEN "green"
  ELSE IF score >= 40 THEN "orange"
  ELSE "red"

\* no setBadgeScore message has been sent
NotSent == -200

\* a text field of a category (value, rating, analysis) that is missing
NoValue == "none"
NoDataText == "We could not find data"
\* the texts of a category of the breakdown
MetricTexts(v, a) == [value |-> v, analysis |-> a]
NoTexts == <<MetricTexts(NoValue, NoValue), MetricTexts(NoValue, NoValue),
             MetricTexts(NoValue, NoValue)>>

\* displayFieldScore: the raw score clamped to 0..10, undefined when the raw
\* score is missing or negative
displayFieldScore(score) ==
  IF score # Undefined /\ score >= 0
  THEN (IF score > 10 THEN 10 ELSE score)
  ELSE Undefined

\* the number in "(Rating: n/10)", or the marker "--"
NoRating == <<"--", 0>>
ratingText(shown) == IF shown # Undefined THEN <<"number", shown>> ELSE NoRating

\* valueText: metricData.value || metricData.rating, "Unknown" when only a
\* score is known
valueText(v, shown) ==
  IF v # NoValue /\ v # "Unknown" THEN v
  ELSE IF shown # Undefined THEN "Unknown"
  ELSE NoDataText

\* a field entry whose stored score is the weighted share of the composite
fieldEntryWeighted(score, texts, w, total) ==
  LET shown == displayFieldScore(score)
  IN [value |-> valueText(texts.value, shown),
      score |-> IF shown = Undefined THEN Undefined ELSE (shown * w) \div total,
      rating |-> ratingText(shown),
      meter |-> IF shown # Undefined /\ shown # 0 THEN shown * 10 ELSE 0,
      analysis |-> IF texts.analysis # NoValue THEN texts.analysis ELSE NoDataText]

\* the body of the forEach over fieldOrder for one category: the entry pushed
\* to detailsData together with the rating text and meter width of the metric
\* element; userWeight w and totalWeight are in scope but not used for it
fieldEntry(score, texts, w, total) ==
  LET shown == displayFieldScore(score)
  IN [value |-> valueText(texts.value, shown),
      score |-> shown,
      rating |-> ratingText(shown),
      meter |-> IF shown # Undefined /\ shown # 0 THEN shown * 10 ELSE 0,
      analysis |-> IF texts.analysis # NoValue THEN texts.analysis ELSE NoDataText]

\* the placeholder entry shown for each category when there is no breakdown
NoDataEntry ==
  [value |-> NoDataText, score |-> Undefined, rating |-> NoRating, meter |-> 0,
   analysis |-> NoDataText]

\* detailsData and the metric elements after the forEach
detailsData(breakdown, texts, weights) ==
  IF breakdown = NoBreakdown THEN <<NoDataEntry, NoDataEntry, NoDataEntry>>
  ELSE [i \in 1..3 |-> fieldEntry(breakdown[i], texts[i], fieldWeight(weights[i]),
                                   totalWeight(weights))]

\* details.js: the rating shown for a stored field entry
detailsRating(entry) ==
  IF entry.score # Undefined /\ entry.score # 0 THEN <<"number", entry.score * 10>>
  ELSE NoRating

\* the popup page before it is opened
PopupClosed ==
  [pc |-> "closed", success |-> FALSE, score |-> Undefined, breakdown |-> NoBreakdown,
   texts |-> NoTexts,
   weights |-> <<MissingWeight, MissingWeight, MissingWeight>>, mainScore |-> Undefined,
   scoreText |-> NoScoreText, badgeScore |-> NotSent, details |-> <<>>, detailsView |-> <<>>,
   check |-> 0]

\* the popup page when the response to its checkSustainability message
\* arrives: the response (success, data.score, breakdown with its texts) and
\* the weights chrome.storage.sync holds
PopupReceived(ok, score, breakdown, texts, weights) ==
  [PopupClosed EXCEPT !.pc = "received", !.success = ok, !.score = score,
                      !.breakdown = breakdown, !.texts = texts, !.weights = weights]

\* -------------------------------------------------------------------- state
VARIABLES
  href,                 \* window.location.href of the tab
  dom,                  \* what the page currently shows (a member of Pages)
  currentUrl,           \* content.js: URL last seen by the poll
  hasRequestedData,     \* content.js: the dispatch gate
  hasShownErrorToast,   \* content.js
  loadPc,               \* content.js: progress of the load-time attempts
  observerPc,           \* content.js: state of window.ecoshopObserver
  pageBadges,           \* elements with id ecoshop-sustainability-badge
  displayJobs,          \* displaySustainabilityBadge calls awaiting preferences
  csToast,              \* text of the last toast shown by content.js
  urlWindow,            \* number of URL changes the poll has detected
  navCount,             \* number of navigations of the page
  sustainabilityCache,  \* service worker: brand cache
  tabDataCache,         \* service worker: last result per tab
  scrapedProductsHistory,
  badgeText,            \* chrome.action badge text per tab
  badgeColor,           \* chrome.action badge colour per tab
  checks,               \* checkSustainability messages and their handlers
  nextId,               \* identity of the next message
  popup,                \* popup.js: the popup page of the tab
  flashInterval         \* service worker: flashCount of the running flashInterval per tab

csVars == <<href, dom, currentUrl, hasRequestedData, hasShownErrorToast, loadPc,
            observerPc, pageBadges, displayJobs, csToast, urlWindow, navCount>>
swVars == <<sustainabilityCache, tabDataCache, scrapedProductsHistory, badgeText,
            badgeColor>>
vars == <<csVars, swVars, checks, nextId, popup, flashInterval>>

Urls == 1..2
CheckIds == 1..MaxChecks

\* every brand text the pages can yield, and the cache keys they map to
BrandTexts == { extractProductInfo(p).brand : p \in Pages }
CacheKeys == { toLowerCase(b) : b \in { t \in BrandTexts : Truthy(t) } }

NoBadgeText == <<"none", 0>>
ScoreText(score) == <<"score", score>>

NewCheck(origin, tab, info, win) ==
  [origin |-> origin, tab |-> tab, info |-> info, win |-> win, nav |-> navCount,
   pc |-> "sent",
   attempt |-> 0, thrown |-> NoText, response |-> NoResponse,
   posts |-> 0, gets |-> 0, polls |-> 0, errs |-> 0, seen |-> "none"]

\* a message whose response callback has run
Closed(ch) == [ch EXCEPT !.pc = "closed", !.info = extractProductInfo(EmptyPage),
                         !.response = NoResponse, !.thrown = NoText, !.attempt = 0,
                         !.gets = 0, !.polls = 0, !.errs = 0, !.seen = "none"]

InitFrom(pages, popups, histories) ==
  /\ popup \in popups
  /\ href = 1
  /\ dom \in pages
  /\ currentUrl = href
  /\ hasRequestedData = FALSE
  /\ hasShownErrorToast = FALSE
  /\ loadPc = "loading"
  /\ observerPc = "waiting"
  /\ pageBadges = <<>>
  /\ displayJobs = <<>>
  /\ csToast = NoText
  /\ urlWindow = 0
  /\ navCount = 0
  /\ sustainabilityCache = [k \in CacheKeys |-> NullData]
  /\ tabDataCache = [t \in Tabs |-> NullData]
  /\ scrapedProductsHistory \in histories
  /\ badgeText = [t \in Tabs |-> NoBadgeText]
  /\ badgeColor = [t \in Tabs |-> "none"]
  /\ checks = [i \in {} |-> NewCheck("content", 1, extractProductInfo(EmptyPage), 0)]
  /\ nextId = 1
  /\ flashInterval = [t \in Tabs |-> <<>>]

\* the state after the service worker has started
InitState(pages, popups) == InitFrom(pages, popups, {<<>>})

\* the state in which the popup has not been opened
InitWith(pages) == InitState(pages, {PopupClosed})


\* ---------------------------------------------------------- content script
\* sendToServiceWorker without the gate
sendToServiceWorkerNoGate(info) ==
  /\ UNCHANGED hasRequestedData
  /\ checks' = checks @@ (nextId :> NewCheck("content", 1, info, urlWindow))
  /\ nextId' = nextId + 1

\* sendToServiceWorker: the gate check, the gate set and sendMessage
sendToServiceWorker(info) ==
  IF hasRequestedData
  THEN UNCHANGED <<hasRequestedData, checks, nextId>>
  ELSE /\ hasRequestedData' = TRUE
       /\ checks' = checks @@ (nextId :> NewCheck("content", 1, info, urlWindow))
       /\ nextId' = nextId + 1

CanSend == hasRequestedData \/ nextId <= MaxChecks

\* the page navigates without reloading the content script
Navigate(u, p) ==
  /\ navCount < MaxNav
  /\ u # href
  /\ href' = u
  /\ dom' = p
  /\ navCount' = navCount + 1
  /\ UNCHANGED <<currentUrl, hasRequestedData, hasShownErrorToast, loadPc, observerPc,
                 pageBadges, displayJobs, csToast, urlWindow, swVars, checks, nextId>>
  /\ UNCHANGED <<popup, flashInterval>>

\* the page fills in or changes its content
PageChange(p) ==
  /\ p # dom
  /\ dom' = p
  /\ UNCHANGED <<href, currentUrl, hasRequestedData, hasShownErrorToast, loadPc,
                 observerPc, pageBadges, displayJobs, csToast, urlWindow, navCount,
                 swVars, checks, nextId>>
  /\ UNCHANGED <<popup, flashInterval>>

\* the setInterval callback, on a tick that sees a new URL
UrlPoll ==
  /\ href # currentUrl
  /\ currentUrl' = href
  /\ hasRequestedData' = FALSE
  /\ hasShownErrorToast' = FALSE
  /\ urlWindow' = urlWindow + 1
  /\ UNCHANGED <<href, dom, loadPc, observerPc, pageBadges, displayJobs, csToast,
                 navCount, swVars, checks, nextId>>
  /\ UNCHANGED <<popup, flashInterval>>

WindowLoad ==
  /\ loadPc = "loading"
  /\ loadPc' = "first"
  /\ UNCHANGED <<href, dom, currentUrl, hasRequestedData, hasShownErrorToast,
                 observerPc, pageBadges, displayJobs, csToast, urlWindow, navCount,
                 swVars, checks, nextId>>
  /\ UNCHANGED <<popup, flashInterval>>

\* the first attempt, one second after load
FirstAttempt ==
  /\ loadPc = "first"
  /\ LET info == extractProductInfo(dom)
     IN IF Dispatchable(info)
        THEN /\ CanSend
             /\ sendToServiceWorker(info)
             /\ loadPc' = "done"
        ELSE /\ loadPc' = "retry"
             /\ UNCHANGED <<hasRequestedData, checks, nextId>>
  /\ UNCHANGED <<href, dom, currentUrl, hasShownErrorToast, observerPc, pageBadges,
                 displayJobs, csToast, urlWindow, navCount, swVars>>
  /\ UNCHANGED <<popup, flashInterval>>

\* the delayed retry, two seconds after a first attempt that found nothing
RetryAttempt ==
  /\ loadPc = "retry"
  /\ LET info == extractProductInfo(dom)
     IN IF Dispatchable(info)
        THEN CanSend /\ sendToServiceWorker(info)
        ELSE UNCHANGED <<hasRequestedData, checks, nextId>>
  /\ loadPc' = "done"
  /\ UNCHANGED <<href, dom, currentUrl, hasShownErrorToast, observerPc, pageBadges,
                 displayJobs, csToast, urlWindow, navCount, swVars>>
  /\ UNCHANGED <<popup, flashInterval>>

\* the timer that calls ecoshopObserver.observe
StartObserver ==
  /\ observerPc = "waiting"
  /\ observerPc' = "observing"
  /\ UNCHANGED <<href, dom, currentUrl, hasRequestedData, hasShownErrorToast, loadPc,
                 pageBadges, displayJobs, csToast, urlWindow, navCount, swVars,
                 checks, nextId>>
  /\ UNCHANGED <<popup, flashInterval>>

\* the MutationObserver callback, on a mutation that leads to a dispatch
ObserverCallback ==
  /\ observerPc = "observing"
  /\ pageBadges = <<>>
  /\ ~hasRequestedData
  /\ Dispatchable(extractProductInfo(dom))
  /\ CanSend
  /\ sendToServiceWorker(extractProductInfo(dom))
  /\ UNCHANGED <<href, dom, currentUrl, hasShownErrorToast, loadPc, observerPc,
                 pageBadges, displayJobs, csToast, urlWindow, navCount, swVars>>
  /\ UNCHANGED <<popup, flashInterval>>

ToastDb == "EcoShop: Database connection required."
ToastUnable == "EcoShop: Unable to load sustainability data"
ToastHint == "For more details, please click the EcoShop extension icon"

IncludesDbConnection(e) == e = RespDbRequired

\* the sendMessage callback of sendToServiceWorker
CsResponse(c) ==
  /\ c \in DOMAIN checks
  /\ checks[c].origin = "content"
  /\ checks[c].pc = "responded"
  /\ checks' = [checks EXCEPT ![c] = Closed(@)]
  /\ LET r == checks[c].response
     IN IF r.success
        THEN \* displaySustainabilityBadge up to its await
             /\ pageBadges' = IF pageBadges = <<>> THEN pageBadges ELSE Tail(pageBadges)
             /\ displayJobs' = Append(displayJobs, r.data)
             /\ UNCHANGED <<hasShownErrorToast, csToast>>
        ELSE IF r.error # NoText
        THEN /\ IF hasShownErrorToast
                THEN UNCHANGED csToast
                ELSE csToast' = IF IncludesDbConnection(r.error) THEN ToastDb
                                ELSE IF r.message # NoText THEN r.message ELSE r.error
             /\ hasShownErrorToast' = TRUE
             /\ UNCHANGED <<pageBadges, displayJobs>>
        ELSE /\ csToast' = IF hasShownErrorToast THEN csToast ELSE ToastUnable
             /\ hasShownErrorToast' = TRUE
             /\ UNCHANGED <<pageBadges, displayJobs>>
  /\ UNCHANGED <<href, dom, currentUrl, hasRequestedData, loadPc, observerPc,
                 urlWindow, navCount, swVars, nextId>>
  /\ UNCHANGED <<popup, flashInterval>>

\* getColorForScore: the comparisons with an undefined score are false
getColorForScore(score) ==
  IF score # Absent /\ score >= 70 THEN "green"
  ELSE IF score # Absent /\ score >= 40 THEN "amber"
  ELSE "red"

\* displaySustainabilityBadge after getUserPreferences has answered
DisplayFinish ==
  /\ displayJobs # <<>>
  /\ pageBadges' = Append(pageBadges, Head(displayJobs).score)
  /\ displayJobs' = Tail(displayJobs)
  /\ observerPc' = IF observerPc = "observing" THEN "disconnected" ELSE observerPc
  /\ UNCHANGED <<href, dom, currentUrl, hasRequestedData, hasShownErrorToast, loadPc,
                 csToast, urlWindow, navCount, swVars, checks, nextId>>
  /\ UNCHANGED <<popup, flashInterval>>

\* the user clicks the badge: it is removed and a hint is shown
BadgeClick ==
  /\ pageBadges # <<>>
  /\ \E i \in 1..Len(pageBadges) :
        pageBadges' = SubSeq(pageBadges, 1, i - 1) \o SubSeq(pageBadges, i + 1, Len(pageBadges))
  /\ csToast' = ToastHint
  /\ UNCHANGED <<href, dom, currentUrl, hasRequestedData, hasShownErrorToast, loadPc,
                 observerPc, displayJobs, urlWindow, navCount, swVars, checks, nextId>>
  /\ UNCHANGED <<popup, flashInterval>>

\* the popup opens: it asks the content script for the product (getProductInfo)
\* and sends it to the service worker itself
PopupRequest ==
  /\ nextId <= MaxChecks
  /\ checks' = checks @@ (nextId :> NewCheck("popup", NoTab, extractProductInfo(dom), urlWindow))
  /\ nextId' = nextId + 1
  /\ UNCHANGED <<csVars, swVars>>
  /\ UNCHANGED <<popup, flashInterval>>


\* ---------------------------------------------- service worker (production)
HistoryLimit == 100

\* const cacheKey = productInfo.brand?.toLowerCase()
cacheKeyOf(info) == IF info.brand = NullStr THEN NullStr ELSE toLowerCase(info.brand)

\* a lookup that finds no entry
CacheLookupMisses(key) == NullData

\* sustainabilityCache[cacheKey], undefined read as NullData
CacheLookup(key) == IF key \in DOMAIN sustainabilityCache THEN sustainabilityCache[key] ELSE NullData

\* updateBadgeForTab: the colour passed to setBadgeBackgroundColor
BadgeColorFor(score) ==
  IF score # Absent /\ score >= 70 THEN "green"
  ELSE IF score # Absent /\ score >= 40 THEN "amber"
  ELSE "red"

\* updateBadgeForTab: score.toString() throws a TypeError on an absent score
BadgeThrows(score) == score = Absent

\* a handler path that ends without calling sendResponse
RespondDropped(c, r, err) ==
  checks' = [checks EXCEPT ![c].pc = "ended", ![c].thrown = err]

\* sendResponse(r) at the end of a path of the handler of message c; err is
\* the error that was caught on the path
Respond(c, r, err) ==
  checks' = [checks EXCEPT ![c].pc = "responded", ![c].response = r, ![c].thrown = err]

\* a catch block that sends the submission once more before it gives up
FailResends(c, err) ==
  /\ IF checks[c].posts = 1
     THEN checks' = [checks EXCEPT ![c].pc = "post", ![c].posts = 2]
     ELSE Respond(c, Response(FALSE, NullData, RespDbRequired, MsgDbRequired), err)
  /\ UNCHANGED <<sustainabilityCache, tabDataCache, badgeText, badgeColor>>

\* the catch block around fetchFromApi and pollForUpdates
Fail(c, err) ==
  /\ Respond(c, Response(FALSE, NullData, RespDbRequired, MsgDbRequired), err)
  /\ UNCHANGED <<sustainabilityCache, tabDataCache, badgeText, badgeColor>>

\* handleSustainabilityCheck from "Cache the result" to its end, outer catch
\* included
Finish(c, data) ==
  LET tab == checks[c].tab
      key == cacheKeyOf(checks[c].info)
      badge == tab # NoTab /\ ~data.null
      threw == badge /\ BadgeThrows(data.score)
  IN /\ sustainabilityCache' =
          IF ~data.null /\ Truthy(key)
          THEN [sustainabilityCache EXCEPT ![key] = data] ELSE sustainabilityCache
     /\ badgeColor' = IF badge THEN [badgeColor EXCEPT ![tab] = BadgeColorFor(data.score)]
                      ELSE badgeColor
     /\ badgeText' = IF badge /\ ~threw THEN [badgeText EXCEPT ![tab] = ScoreText(data.score)]
                     ELSE badgeText
     /\ tabDataCache' = IF badge /\ ~threw THEN [tabDataCache EXCEPT ![tab] = data]
                        ELSE tabDataCache
     /\ IF threw
        THEN Respond(c, Response(FALSE, NullData, RespInternal, NoText), ErrType)
        ELSE Respond(c, Response(~data.null, data,
                                 IF data.null THEN RespNoData ELSE NoText, NoText), NoText)

\* the cache-hit branch: badge and tabDataCache for a tab sender, then the
\* response; caught is the error text the outer catch answers with
ServeFromCache(c, data, caught) ==
  LET tab == checks[c].tab
  IN /\ badgeColor' = IF tab # NoTab
                      THEN [badgeColor EXCEPT ![tab] = BadgeColorFor(data.score)]
                      ELSE badgeColor
     /\ IF tab # NoTab /\ BadgeThrows(data.score)
        THEN /\ Respond(c, Response(FALSE, NullData, caught, NoText), ErrType)
             /\ UNCHANGED <<badgeText, tabDataCache>>
        ELSE /\ badgeText' = IF tab # NoTab
                             THEN [badgeText EXCEPT ![tab] = ScoreText(data.score)]
                             ELSE badgeText
             /\ tabDataCache' = IF tab # NoTab
                                THEN [tabDataCache EXCEPT ![tab] = data]
                                ELSE tabDataCache
             /\ Respond(c, Response(TRUE, data, NoText, NoText), NoText)
     /\ UNCHANGED sustainabilityCache

\* the message listener and handleSustainabilityCheck up to its first await
SWReceive(c) ==
  /\ c \in DOMAIN checks
  /\ checks[c].pc = "sent"
  /\ LET info == checks[c].info
         tab == checks[c].tab
         key == cacheKeyOf(info)
         data == CacheLookup(key)
     IN /\ scrapedProductsHistory' =
             IF Dispatchable(info)
             THEN SubSeq(<<info>> \o scrapedProductsHistory, 1,
                         IF Len(scrapedProductsHistory) + 1 > HistoryLimit
                         THEN HistoryLimit ELSE Len(scrapedProductsHistory) + 1)
             ELSE scrapedProductsHistory
        /\ IF Truthy(key) /\ ~data.null
           THEN ServeFromCache(c, data, RespInternal)
           ELSE IF ~Truthy(info.brand)
           THEN \* fetchFromApi rejects before any request
                Fail(c, ErrMissingBrand)
           ELSE /\ checks' = [checks EXCEPT ![c].pc = "post", ![c].posts = 1]
                /\ UNCHANGED <<sustainabilityCache, tabDataCache, badgeText, badgeColor>>
  /\ UNCHANGED <<csVars, nextId>>
  /\ UNCHANGED <<popup, flashInterval>>

\* what fetchFromApi makes of an OK answer to POST /api/product
Returned(d) == [throw |-> NoText, data |-> d]
Thrown(e) == [throw |-> e, data |-> NullData]

PostResult(body) ==
  IF body.success
  THEN IF body.status = "found" THEN Returned(body.data)
       ELSE IF body.status = "processing"
       THEN Returned(IF body.data.null THEN Data(Absent, "none", body.product_id)
                     ELSE [body.data EXCEPT !.product_id = body.product_id])
       ELSE IF ~body.data.null THEN Returned(body.data)
       ELSE Thrown(ErrInvalid)
  ELSE Thrown(ErrInvalid)

FallbackResult(body) ==
  IF body.success /\ ~body.data.null THEN Returned(body.data) ELSE Thrown(ErrNoData)

\* handleSustainabilityCheck after fetchFromApi has returned data
AfterFetch(c, data) ==
  IF ~data.null /\ data.certainty = "pending" /\ data.product_id # NoPid
  THEN /\ checks' = [checks EXCEPT ![c].pc = "poll", ![c].attempt = 0, ![c].polls = 1]
       /\ UNCHANGED <<sustainabilityCache, tabDataCache, badgeText, badgeColor>>
  ELSE Finish(c, data)

\* an inner catch that rethrows whatever fetch rejected with
innerCatchRethrows(name, message) == message

\* fetchFromApi, inner catch: an AbortError becomes the time-out error, any
\* other error is rethrown as it is
innerCatch(name, message) == IF name = "AbortError" THEN ErrAbort ELSE message

\* the answer to POST /api/product arrives, or the abort timer fires
PostResponse(c, bodies) ==
  /\ c \in DOMAIN checks
  /\ checks[c].pc = "post"
  /\ \/ Fail(c, innerCatch("TypeError", ErrNetwork))
     \/ Fail(c, innerCatch("AbortError", ErrAborted))
     \/ \* not OK: fall back to GET /api/score
        /\ checks' = [checks EXCEPT ![c].pc = "fallback", ![c].gets = 1]
        /\ UNCHANGED <<sustainabilityCache, tabDataCache, badgeText, badgeColor>>
     \/ \E body \in bodies :
          LET r == PostResult(body)
          IN IF r.throw # NoText THEN Fail(c, r.throw) ELSE AfterFetch(c, r.data)
  /\ UNCHANGED <<csVars, scrapedProductsHistory, nextId>>
  /\ UNCHANGED <<popup, flashInterval>>

\* the answer to the fallback GET /api/score arrives
FallbackResponse(c, bodies) ==
  /\ c \in DOMAIN checks
  /\ checks[c].pc = "fallback"
  /\ \/ Fail(c, ErrNetwork)
     \/ Fail(c, ErrApiReturned)
     \/ \E body \in bodies :
          LET r == FallbackResult(body)
          IN IF r.throw # NoText THEN Fail(c, r.throw) ELSE AfterFetch(c, r.data)
  /\ UNCHANGED <<csVars, scrapedProductsHistory, nextId>>
  /\ UNCHANGED <<popup, flashInterval>>

\* a loop header that admits one attempt more than the budget
NextAttemptOverBudget(c, e) ==
  IF checks[c].attempt + 1 < maxAttempts + 1
  THEN /\ checks' = [checks EXCEPT ![c].pc = "poll", ![c].attempt = @ + 1, ![c].polls = @ + 1,
                                   ![c].errs = @ + e]
       /\ UNCHANGED <<sustainabilityCache, tabDataCache, badgeText, badgeColor>>
  ELSE /\ checks' = [checks EXCEPT ![c].pc = "responded", ![c].attempt = maxAttempts,
                                   ![c].thrown = ErrPollTimeout, ![c].errs = @ + e,
                                   ![c].response = Response(FALSE, NullData, RespDbRequired,
                                                            MsgDbRequired)]
       /\ UNCHANGED <<sustainabilityCache, tabDataCache, badgeText, badgeColor>>

\* pollForUpdates: the loop header after an attempt has ended; e is 1 when
\* the attempt ended in the catch block on a rejected fetch, else 0
NextAttempt(c, e) ==
  IF checks[c].attempt + 1 < maxAttempts
  THEN /\ checks' = [checks EXCEPT ![c].pc = "poll", ![c].attempt = @ + 1, ![c].polls = @ + 1,
                                   ![c].errs = @ + e]
       /\ UNCHANGED <<sustainabilityCache, tabDataCache, badgeText, badgeColor>>
  ELSE \* the loop ends with attempt = maxAttempts and the timeout is thrown
       /\ checks' = [checks EXCEPT ![c].pc = "responded", ![c].attempt = maxAttempts,
                                   ![c].thrown = ErrPollTimeout, ![c].errs = @ + e,
                                   ![c].response = Response(FALSE, NullData, RespDbRequired,
                                                            MsgDbRequired)]
       /\ UNCHANGED <<sustainabilityCache, tabDataCache, badgeText, badgeColor>>

\* a status handler in which a rejected fetch ends the loop
StatusResponseAbortsOnError(c, bodies) ==
  /\ c \in DOMAIN checks
  /\ checks[c].pc = "poll"
  /\ \/ Fail(c, ErrNetwork)
     \/ /\ checks' = [checks EXCEPT ![c].pc = "sleep", ![c].errs = @ + 1]
        /\ UNCHANGED <<sustainabilityCache, tabDataCache, badgeText, badgeColor>>
     \/ \E body \in bodies :
          IF body.success /\ body.status = "completed"
          THEN IF checks[c].tab # NoTab /\ body.data.null
               THEN NextAttempt(c, 0)
               ELSE Finish(c, body.data)
          ELSE \* any other task status: wait and ask again
               /\ checks' = [checks EXCEPT ![c].pc = "sleep", ![c].seen = body.status]
               /\ UNCHANGED <<sustainabilityCache, tabDataCache, badgeText, badgeColor>>
  /\ UNCHANGED <<csVars, scrapedProductsHistory, nextId>>
  /\ UNCHANGED <<popup, flashInterval>>

\* the answer to GET /api/product/{id}/status arrives
StatusResponse(c, bodies) ==
  /\ c \in DOMAIN checks
  /\ checks[c].pc = "poll"
  /\ \/ \* fetch or response.json() rejects: caught inside the loop
        NextAttempt(c, 1)
     \/ \* not OK
        /\ checks' = [checks EXCEPT ![c].pc = "sleep", ![c].errs = @ + 1]
        /\ UNCHANGED <<sustainabilityCache, tabDataCache, badgeText, badgeColor>>
     \/ \E body \in bodies :
          IF body.success /\ body.status = "completed"
          THEN IF checks[c].tab # NoTab /\ body.data.null
               THEN \* data.data.score throws inside the try block
                    NextAttempt(c, 0)
               ELSE Finish(c, body.data)
          ELSE \* any other task status: wait and ask again
               /\ checks' = [checks EXCEPT ![c].pc = "sleep", ![c].seen = body.status]
               /\ UNCHANGED <<sustainabilityCache, tabDataCache, badgeText, badgeColor>>
  /\ UNCHANGED <<csVars, scrapedProductsHistory, nextId>>
  /\ UNCHANGED <<popup, flashInterval>>

\* the two-second wait between attempts ends
SleepDone(c) ==
  /\ c \in DOMAIN checks
  /\ checks[c].pc = "sleep"
  /\ NextAttempt(c, 0)
  /\ UNCHANGED <<csVars, scrapedProductsHistory, nextId>>
  /\ UNCHANGED <<popup, flashInterval>>

\* the popup's sendMessage callback (handleSustainabilityData)
PopupResponse(c) ==
  /\ c \in DOMAIN checks
  /\ checks[c].origin = "popup"
  /\ checks[c].pc = "responded"
  /\ checks' = [checks EXCEPT ![c] = Closed(@)]
  /\ UNCHANGED <<csVars, swVars, nextId>>
  /\ UNCHANGED <<popup, flashInterval>>

\* a handler that answers with the last entry of the history
getOldestProductInfo ==
  IF Len(scrapedProductsHistory) > 0
  THEN [success |-> TRUE, product |-> scrapedProductsHistory[Len(scrapedProductsHistory)]]
  ELSE [success |-> FALSE, product |-> extractProductInfo(EmptyPage)]

\* the response of the getMostRecentProductInfo handler
getMostRecentProductInfo ==
  IF Len(scrapedProductsHistory) > 0
  THEN [success |-> TRUE, product |-> scrapedProductsHistory[1]]
  ELSE [success |-> FALSE, product |-> extractProductInfo(EmptyPage)]

\* the text and colour of the "click the icon" prompt
OpenText == <<"OPEN", 0>>
FlashLimit == 3

\* the openPopup handler of a tab's message; the tab sends the prompt again
\* only after the flashing of the previous one has ended
openPopup(tab) ==
  /\ flashInterval[tab] = <<>>
  /\ badgeText' = [badgeText EXCEPT ![tab] = OpenText]
  /\ badgeColor' = [badgeColor EXCEPT ![tab] = "blue"]
  /\ flashInterval' = [flashInterval EXCEPT ![tab] = <<0>>]
  /\ UNCHANGED <<csVars, sustainabilityCache, tabDataCache, scrapedProductsHistory,
                 checks, nextId, popup>>

\* one run of the setInterval callback of openPopup
flashTick(tab) ==
  /\ flashInterval[tab] # <<>>
  /\ LET flashCount == flashInterval[tab][1]
         cachedData == tabDataCache[tab]
     IN IF flashCount >= FlashLimit
        THEN /\ flashInterval' = [flashInterval EXCEPT ![tab] = <<>>]
             /\ IF ~cachedData.null /\ cachedData.score # Absent /\ cachedData.score # 0
                THEN /\ badgeColor' = [badgeColor EXCEPT ![tab] = BadgeColorFor(cachedData.score)]
                     /\ badgeText' = [badgeText EXCEPT ![tab] = ScoreText(cachedData.score)]
                ELSE UNCHANGED <<badgeText, badgeColor>>
        ELSE /\ badgeColor' = [badgeColor EXCEPT
                                 ![tab] = IF flashCount % 2 = 0 THEN "flash" ELSE "blue"]
             /\ flashInterval' = [flashInterval EXCEPT ![tab] = <<flashCount + 1>>]
             /\ UNCHANGED badgeText
  /\ UNCHANGED <<csVars, sustainabilityCache, tabDataCache, scrapedProductsHistory,
                 checks, nextId, popup>>

\* a checkSustainability message from any client: the tab's content script
\* (which sends dispatchable products only) or the popup
ClientRequest(tab, info) ==
  /\ nextId <= MaxChecks
  /\ tab # NoTab => Dispatchable(info)
  /\ checks' = checks @@ (nextId :> NewCheck(IF tab = NoTab THEN "popup" ELSE "content",
                                            tab, info, 0))
  /\ nextId' = nextId + 1
  /\ UNCHANGED <<csVars, swVars>>
  /\ UNCHANGED <<popup, flashInterval>>


\* the popup page loads: the content script answers getProductInfo with
\* { productInfo: extractProductInfo() } and the popup sends it on as
\* checkSustainability
popupInit ==
  /\ popup.pc = "closed"
  /\ nextId <= MaxChecks
  /\ checks' = checks @@ (nextId :> NewCheck("popup", NoTab, extractProductInfo(dom), urlWindow))
  /\ nextId' = nextId + 1
  /\ popup' = [popup EXCEPT !.pc = "loading", !.check = nextId]
  /\ UNCHANGED <<csVars, swVars>>
  /\ UNCHANGED flashInterval

\* the response to the popup's message arrives at the page that sent it; the
\* record's breakdown b and texts t are opaque to the service worker
popupCallback(c, b, t) ==
  /\ popup.pc = "loading"
  /\ popup.check = c
  /\ c \in DOMAIN checks
  /\ checks[c].pc = "responded"
  /\ popup' = [PopupReceived(checks[c].response.success, checks[c].response.data.score,
                             IF checks[c].response.success THEN b ELSE NoBreakdown,
                             IF checks[c].response.success THEN t ELSE NoTexts,
                             popup.weights)
               EXCEPT !.check = c]
  /\ UNCHANGED <<csVars, swVars, checks, nextId>>
  /\ UNCHANGED flashInterval

\* the settings are saved with weights w and refreshEcoShopPopup reaches the
\* popup: window.location.reload()
refreshEcoShopPopup(w) ==
  /\ popup.pc \in {"loading", "received", "settings", "shown", "message"}
  /\ popup' = [PopupClosed EXCEPT !.weights = w]
  /\ UNCHANGED <<csVars, swVars, checks, nextId>>
  /\ UNCHANGED flashInterval

\* handleSustainabilityData up to the chrome.storage.sync.get call: an
\* unsuccessful response shows a message, a successful one shows data.score
handleSustainabilityData ==
  /\ popup.pc = "received"
  /\ popup' = IF ~popup.success
              THEN [popup EXCEPT !.pc = "message"]
              ELSE [popup EXCEPT !.pc = "settings", !.mainScore = popup.score,
                                 !.scoreText = scoreTextOf(popup.score)]
  /\ UNCHANGED <<csVars, swVars, checks, nextId>>
  /\ UNCHANGED flashInterval

\* the chrome.storage.sync.get callback of handleSustainabilityData: the
\* weighted composite replaces the score shown and is sent as setBadgeScore
settingsCallback ==
  /\ popup.pc = "settings"
  /\ LET main == mainScoreOf(popup.breakdown, popup.weights)
     IN popup' = [popup EXCEPT !.pc = "shown", !.mainScore = main,
                               !.scoreText = scoreTextOf(main), !.badgeScore = main,
                               !.details = detailsData(popup.breakdown, popup.texts,
                                                       popup.weights)]
  /\ UNCHANGED <<csVars, swVars, checks, nextId>>
  /\ UNCHANGED flashInterval

\* the Show Details button: detailsData goes to chrome.storage.local and
\* details.js renders each stored entry
showDetails ==
  /\ popup.pc = "shown"
  /\ popup' = [popup EXCEPT !.pc = "details",
                            !.detailsView = [i \in 1..3 |->
                                               [value |-> popup.details[i].value,
                                                rating |-> detailsRating(popup.details[i]),
                                                analysis |-> popup.details[i].analysis]]]
  /\ UNCHANGED <<csVars, swVars, checks, nextId>>
  /\ UNCHANGED flashInterval

\* ------------------------------------------------------------ specification
\* Content script and service worker together, on pages with one product.
CsPages == {EmptyPage, PageS}
CsPostBodies ==
  { [success |-> TRUE, status |-> "found", data |-> Data(80, "high", NoPid), product_id |-> NoPid],
    [success |-> TRUE, status |-> "processing", data |-> Data(Absent, "pending", NoPid),
     product_id |-> Pid] }
CsFallbackBodies == { [success |-> FALSE, data |-> NullData] }
CsStatusBodies ==
  { [success |-> TRUE, status |-> "completed", data |-> Data(35, "high", NoPid)],
    [success |-> TRUE, status |-> "processing", data |-> NullData] }

Init == InitWith(CsPages)

Next ==
  \/ \E u \in Urls, p \in CsPages : Navigate(u, p)
  \/ \E p \in CsPages : PageChange(p)
  \/ UrlPoll
  \/ WindowLoad
  \/ FirstAttempt
  \/ RetryAttempt
  \/ StartObserver
  \/ ObserverCallback
  \/ \E c \in CheckIds : CsResponse(c)
  \/ DisplayFinish
  \/ BadgeClick
  \/ PopupRequest
  \/ \E c \in CheckIds : PopupResponse(c)
  \/ \E c \in CheckIds : SWReceive(c)
  \/ \E c \in CheckIds : PostResponse(c, CsPostBodies)
  \/ \E c \in CheckIds : FallbackResponse(c, CsFallbackBodies)
  \/ \E c \in CheckIds : StatusResponse(c, CsStatusBodies)
  \/ \E c \in CheckIds : SleepDone(c)

Spec == Init /\ [][Next]_vars


\* Content script and service worker, with a gateway that answers at once.
GatePostBodies ==
  { [success |-> TRUE, status |-> "found", data |-> Data(80, "high", NoPid), product_id |-> NoPid] }

NextGate ==
  \/ \E u \in Urls, p \in CsPages : Navigate(u, p)
  \/ \E p \in CsPages : PageChange(p)
  \/ UrlPoll
  \/ WindowLoad
  \/ FirstAttempt
  \/ RetryAttempt
  \/ StartObserver
  \/ ObserverCallback
  \/ \E c \in CheckIds : CsResponse(c)
  \/ DisplayFinish
  \/ BadgeClick
  \/ \E c \in CheckIds : SWReceive(c)
  \/ \E c \in CheckIds : PostResponse(c, GatePostBodies)
  \/ \E c \in CheckIds : FallbackResponse(c, CsFallbackBodies)

SpecGate == Init /\ [][NextGate]_vars


\* One page load of the content script (load attempt, retry, observer) on a
\* page whose content changes, and the popup, which sends whatever product
\* the content script extracts for it.
NextDispatch ==
  \/ \E p \in CsPages : PageChange(p)
  \/ WindowLoad
  \/ FirstAttempt
  \/ RetryAttempt
  \/ StartObserver
  \/ ObserverCallback
  \/ PopupRequest
  \/ \E c \in CheckIds : SWReceive(c)
  \/ \E c \in CheckIds : PostResponse(c, GatePostBodies)
  \/ \E c \in CheckIds : FallbackResponse(c, CsFallbackBodies)

SpecDispatch == Init /\ [][NextDispatch]_vars


\* The extractor on its own: one page load and the popup, on every document
\* built from three selectors per field, the meta tags and the names below.
BrandElements ==
  { <<a, b, c>> : a \in {NullStr, <<" ">>, <<" ", "S">>},
                  b \in {NullStr, <<" ">>, <<"T", " ">>},
                  c \in {NullStr, <<"U">>} }
NameElements ==
  { <<a, b, c>> : a \in {NullStr, <<" ">>, <<"x", " ">>},
                  b \in {NullStr, <<" ">>, <<" ", "y">>},
                  c \in {NullStr, <<"z">>} }
ProductNames ==
  { <<"H","P"," ","[","Q","]">>,
    <<"[","Q","]"," ","A","b","c">>,
    <<"[","N","e","w","]"," ","A","b","c">>,
    <<"[","N","e","w","]"," ","a","b","c">>,
    <<"A","b","c"," ","[","p","p","p","p","p","p","p","p","p","p","p","p","p","p","p","]">>,
    <<"a","b","c"," ","[","p","p","p","p","p","p","p","p","p","p","p","p","p","p","p","]">>,
    <<"a","b","c"," ","[","p","p","p","p","p","p","p","p","p","p","p","p","p","p","]">>,
    <<"A","b","c"," ","d">>,
    <<"a","b","c"," ","d">>,
    <<"A","b"," ","d">>,
    <<"1","a","b"," ","d">>,
    <<"[","N","e","w","]","A","b","c">>,
    <<"[","]"," ","A","b","c">> }
Documents ==
  { Document(b, n, mb, mn) : b \in BrandElements, n \in NameElements,
                             mb \in {NullStr, <<"M">>}, mn \in {NullStr, <<"m">>} }
  \cup { Document(<<NullStr, NullStr, NullStr>>, <<NullStr, n, NullStr>>, NullStr, NullStr) :
           n \in ProductNames }
  \cup { Document(<<NullStr, NullStr, NullStr>>, <<NullStr, NullStr, NullStr>>, NullStr, n) :
           n \in ProductNames }

NextExtract ==
  \/ WindowLoad
  \/ FirstAttempt
  \/ RetryAttempt
  \/ PopupRequest

SpecExtract == InitWith(Documents) /\ [][NextExtract]_vars


\* The service worker alone, with its clients (content scripts and popup)
\* sending any product the extractor can produce.
WorkerInfos == { extractProductInfo(p) : p \in {PageS, PageLower, PageMeta, PageNameOnly} }
WorkerPostBodies ==
  { [success |-> TRUE, status |-> "found", data |-> Data(80, "high", NoPid), product_id |-> NoPid],
    [success |-> TRUE, status |-> "found", data |-> Data(35, "high", NoPid), product_id |-> NoPid],
    [success |-> TRUE, status |-> "processing", data |-> NullData, product_id |-> Pid],
    [success |-> TRUE, status |-> "processing", data |-> Data(Absent, "pending", NoPid),
     product_id |-> Pid] }

InitWorker == InitWith({EmptyPage})

NextWorker ==
  \/ \E tab \in Tabs \cup {NoTab}, info \in WorkerInfos : ClientRequest(tab, info)
  \/ \E c \in CheckIds : SWReceive(c)
  \/ \E c \in CheckIds : PostResponse(c, WorkerPostBodies)
  \/ \E c \in CheckIds : FallbackResponse(c, CsFallbackBodies)
  \/ \E c \in CheckIds : StatusResponse(c, CsStatusBodies)
  \/ \E c \in CheckIds : SleepDone(c)

SpecWorker == InitWorker /\ [][NextWorker]_vars


\* The production service worker with one product and a gateway that may
\* leave the task pending, complete it, or report an error for it.
PollInfos == { extractProductInfo(PageS) }
PollPostBodies ==
  { [success |-> TRUE, status |-> "found", data |-> Data(80, "high", NoPid), product_id |-> NoPid],
    [success |-> TRUE, status |-> "processing", data |-> Data(Absent, "pending", NoPid),
     product_id |-> Pid] }
PollFallbackBodies ==
  { [success |-> FALSE, data |-> NullData], [success |-> TRUE, data |-> Data(35, "high", NoPid)] }
PollStatusBodies ==
  { [success |-> TRUE, status |-> "completed", data |-> Data(35, "high", NoPid)],
    [success |-> TRUE, status |-> "completed", data |-> NullData],
    [success |-> TRUE, status |-> "processing", data |-> NullData],
    [success |-> FALSE, status |-> "error", data |-> NullData],
    [success |-> TRUE, status |-> "error", data |-> NullData] }

NextPoll ==
  \/ \E tab \in Tabs \cup {NoTab}, info \in PollInfos : ClientRequest(tab, info)
  \/ \E c \in CheckIds : SWReceive(c)
  \/ \E c \in CheckIds : PostResponse(c, PollPostBodies)
  \/ \E c \in CheckIds : FallbackResponse(c, PollFallbackBodies)
  \/ \E c \in CheckIds : StatusResponse(c, PollStatusBodies)
  \/ \E c \in CheckIds : SleepDone(c)

SpecPoll == InitWorker /\ [][NextPoll]_vars


\* The production service worker with every path of the handler: cache hit,
\* success, gateway failure, poll timeout and the exception of the badge
\* update, for up to two messages at a time. Each request to the gateway is
\* eventually answered or fails, each timer eventually fires and each message
\* is eventually delivered.
RespondPostBodies ==
  { [success |-> TRUE, status |-> "found", data |-> Data(80, "high", NoPid), product_id |-> NoPid],
    [success |-> TRUE, status |-> "processing", data |-> NullData, product_id |-> Pid],
    [success |-> TRUE, status |-> "processing", data |-> Data(Absent, "pending", NoPid),
     product_id |-> Pid] }
RespondStatusBodies ==
  { [success |-> TRUE, status |-> "completed", data |-> Data(35, "high", NoPid)],
    [success |-> TRUE, status |-> "processing", data |-> NullData] }

\* a client sends a message while at most one earlier message is unanswered
NextRequest(tab, info) ==
  /\ \A c, d \in DOMAIN checks :
        (checks[c].pc # "responded" /\ checks[d].pc # "responded") => c = d
  /\ ClientRequest(tab, info)

HandlerStep(c) ==
  \/ SWReceive(c)
  \/ PostResponse(c, RespondPostBodies)
  \/ FallbackResponse(c, PollFallbackBodies)
  \/ StatusResponse(c, RespondStatusBodies)
  \/ SleepDone(c)

NextRespond ==
  \/ \E tab \in Tabs \cup {NoTab}, info \in PollInfos : NextRequest(tab, info)
  \/ \E c \in CheckIds : SWReceive(c)
  \/ \E c \in CheckIds : PostResponse(c, RespondPostBodies)
  \/ \E c \in CheckIds : FallbackResponse(c, PollFallbackBodies)
  \/ \E c \in CheckIds : StatusResponse(c, RespondStatusBodies)
  \/ \E c \in CheckIds : SleepDone(c)

SpecRespond ==
  /\ InitWorker
  /\ [][NextRespond]_vars
  /\ \A c \in CheckIds : WF_vars(HandlerStep(c))


\* The production service worker, started with an empty history or reached
\* after HistoryLimit - 1 or HistoryLimit checks of one product, with clients
\* that send products with a brand, with a name only, and with neither.
HistoryInfos == { extractProductInfo(p) : p \in {PageS, PageNameOnly, EmptyPage} }
Histories ==
  { [i \in 1..n |-> extractProductInfo(PageLower)] : n \in {0, HistoryLimit - 1, HistoryLimit} }

NextHistory ==
  \/ \E tab \in Tabs \cup {NoTab}, info \in HistoryInfos : ClientRequest(tab, info)
  \/ \E c \in CheckIds : SWReceive(c)
  \/ \E c \in CheckIds : PostResponse(c, GatePostBodies)
  \/ \E c \in CheckIds : FallbackResponse(c, CsFallbackBodies)

SpecHistory == InitFrom({EmptyPage}, {PopupClosed}, Histories) /\ [][NextHistory]_vars


\* The production service worker with a tab that asks for the prompt and a
\* gateway that knows three scores.
FlashPostBodies ==
  { [success |-> TRUE, status |-> "found", data |-> Data(s, "high", NoPid), product_id |-> NoPid] :
      s \in {0, 35, 80} }

NextFlash ==
  \/ \E tab \in Tabs, info \in WorkerInfos : ClientRequest(tab, info)
  \/ \E c \in CheckIds : SWReceive(c)
  \/ \E c \in CheckIds : PostResponse(c, FlashPostBodies)
  \/ \E c \in CheckIds : FallbackResponse(c, CsFallbackBodies)
  \/ \E tab \in Tabs : openPopup(tab)
  \/ \E tab \in Tabs : flashTick(tab)

SpecFlash == InitWorker /\ [][NextFlash]_vars



\* ------------------------------- service worker (extension/service_worker.js)
ErrReference == "findBrandData is not defined"

\* generateFallbackData: the neutral record used when the request fails
generateFallbackData == Data(50, "low", NoPid)

\* what GET .../score?brand=... may answer with
LegacyBodies == {Data(80, "high", NoPid), Data(Absent, "none", NoPid), NullData}

\* handleSustainabilityCheck from "Cache the result" to its end; the outer
\* catch answers with the message of the error
LegacyFinish(c, data, err) ==
  LET tab == checks[c].tab
      key == cacheKeyOf(checks[c].info)
      threw == tab # NoTab /\ (data.null \/ BadgeThrows(data.score))
  IN /\ sustainabilityCache' =
          IF Truthy(key) THEN [sustainabilityCache EXCEPT ![key] = data]
          ELSE sustainabilityCache
     /\ badgeColor' = IF tab # NoTab /\ ~data.null
                      THEN [badgeColor EXCEPT ![tab] = BadgeColorFor(data.score)]
                      ELSE badgeColor
     /\ badgeText' = IF tab # NoTab /\ ~threw
                     THEN [badgeText EXCEPT ![tab] = ScoreText(data.score)]
                     ELSE badgeText
     /\ tabDataCache' = IF tab # NoTab /\ ~threw THEN [tabDataCache EXCEPT ![tab] = data]
                        ELSE tabDataCache
     /\ IF threw
        THEN Respond(c, Response(FALSE, NullData, ErrType, NoText), ErrType)
        ELSE Respond(c, Response(TRUE, data, NoText, NoText), err)

\* the message listener and handleSustainabilityCheck up to its first await
LegacyReceive(c) ==
  /\ c \in DOMAIN checks
  /\ checks[c].pc = "sent"
  /\ LET key == cacheKeyOf(checks[c].info)
         data == CacheLookup(key)
     IN IF Truthy(key) /\ ~data.null
        THEN ServeFromCache(c, data, ErrType)
        ELSE /\ checks' = [checks EXCEPT ![c].pc = "local"]
             /\ UNCHANGED <<sustainabilityCache, tabDataCache, badgeText, badgeColor>>
  /\ UNCHANGED <<csVars, scrapedProductsHistory, nextId>>
  /\ UNCHANGED <<popup, flashInterval>>

\* getSustainabilityData has resolved: the local lookup, then fetchFromApi.
\* The file calls findBrandData without defining it.
LegacyLocal(c) ==
  /\ c \in DOMAIN checks
  /\ checks[c].pc = "local"
  /\ IF Truthy(checks[c].info.brand)
     THEN Respond(c, Response(FALSE, NullData, ErrReference, NoText), ErrReference)
     ELSE checks' = [checks EXCEPT ![c].pc = "get", ![c].gets = 1]
  /\ UNCHANGED <<csVars, swVars, nextId>>
  /\ UNCHANGED <<popup, flashInterval>>

\* the answer to fetchFromApi's GET arrives
LegacyApiResponse(c, bodies) ==
  /\ c \in DOMAIN checks
  /\ checks[c].pc = "get"
  /\ \/ LegacyFinish(c, generateFallbackData, ErrNetwork)
     \/ LegacyFinish(c, generateFallbackData, ErrApiReturned)
     \/ \E body \in bodies : LegacyFinish(c, body, NoText)
  /\ UNCHANGED <<csVars, scrapedProductsHistory, nextId>>
  /\ UNCHANGED <<popup, flashInterval>>

NextLegacy ==
  \/ \E tab \in Tabs \cup {NoTab}, info \in WorkerInfos : ClientRequest(tab, info)
  \/ \E c \in CheckIds : LegacyReceive(c)
  \/ \E c \in CheckIds : LegacyLocal(c)
  \/ \E c \in CheckIds : LegacyApiResponse(c, LegacyBodies)

SpecLegacy == InitWorker /\ [][NextLegacy]_vars



\* ------------------------ service worker, development variant (dev backup)
\* getHardcodedBrands: the built-in data set, brand names with their records
getHardcodedBrands ==
  << [brand |-> <<"N","i","k","e">>, data |-> Data(68, "high", NoPid)],
     [brand |-> <<"A","d","i","d","a","s">>, data |-> Data(72, "high", NoPid)],
     [brand |-> <<"H","&","M">>, data |-> Data(61, "high", NoPid)],
     [brand |-> <<"Z","a","r","a">>, data |-> Data(58, "high", NoPid)],
     [brand |-> <<"U","n","i","q","l","o">>, data |-> Data(63, "medium", NoPid)],
     [brand |-> <<"P","a","t","a","g","o","n","i","a">>, data |-> Data(89, "high", NoPid)],
     [brand |-> <<"A","p","p","l","e">>, data |-> Data(78, "high", NoPid)],
     [brand |-> <<"S","a","m","s","u","n","g">>, data |-> Data(72, "high", NoPid)],
     [brand |-> <<"X","i","a","o","m","i">>, data |-> Data(61, "medium", NoPid)] >>

\* findBrandData: the first exact match, else the first partial match
findBrandData(data, brandQuery) ==
  LET q == toLowerCase(brandQuery)
      exact == { i \in 1..Len(data) : toLowerCase(data[i].brand) = q }
      partial == { i \in 1..Len(data) :
                     \/ Includes(toLowerCase(data[i].brand), q)
                     \/ Includes(q, toLowerCase(data[i].brand)) }
      First(S) == CHOOSE i \in S : \A j \in S : i <= j
  IN IF ~Truthy(brandQuery) THEN NullData
     ELSE IF exact # {} THEN data[First(exact)].data
     ELSE IF partial # {} THEN data[First(partial)].data
     ELSE NullData

\* the record pollForUpdates returns when its attempts are used up
PollTimeoutData == Data(50, "low", NoPid)

\* a response object returned as if it were a record
ResponseAsData == Data(Absent, "none", NoPid)

\* handleSustainabilityCheck from "Cache the result" to its end, with the
\* loop counter att of pollForUpdates
DevFinish(c, data, err, att) ==
  LET tab == checks[c].tab
      key == cacheKeyOf(checks[c].info)
      threw == tab # NoTab /\ (data.null \/ BadgeThrows(data.score))
      r == IF threw THEN Response(FALSE, NullData, ErrType, NoText)
           ELSE Response(TRUE, data, NoText, NoText)
  IN /\ sustainabilityCache' =
          IF Truthy(key) THEN [sustainabilityCache EXCEPT ![key] = data]
          ELSE sustainabilityCache
     /\ badgeColor' = IF tab # NoTab /\ ~data.null
                      THEN [badgeColor EXCEPT ![tab] = BadgeColorFor(data.score)]
                      ELSE badgeColor
     /\ badgeText' = IF tab # NoTab /\ ~threw
                     THEN [badgeText EXCEPT ![tab] = ScoreText(data.score)]
                     ELSE badgeText
     /\ tabDataCache' = IF tab # NoTab /\ ~threw THEN [tabDataCache EXCEPT ![tab] = data]
                        ELSE tabDataCache
     /\ checks' = [checks EXCEPT ![c].pc = "responded", ![c].response = r,
                                 ![c].thrown = IF threw THEN ErrType ELSE err,
                                 ![c].attempt = att]

\* the message listener and handleSustainabilityCheck up to its first await
DevReceive(c) ==
  /\ c \in DOMAIN checks
  /\ checks[c].pc = "sent"
  /\ LET info == checks[c].info
         key == cacheKeyOf(info)
         data == CacheLookup(key)
     IN /\ scrapedProductsHistory' =
             IF Dispatchable(info)
             THEN SubSeq(<<info>> \o scrapedProductsHistory, 1,
                         IF Len(scrapedProductsHistory) + 1 > HistoryLimit
                         THEN HistoryLimit ELSE Len(scrapedProductsHistory) + 1)
             ELSE scrapedProductsHistory
        /\ IF Truthy(key) /\ ~data.null
           THEN ServeFromCache(c, data, ErrType)
           ELSE /\ checks' = [checks EXCEPT ![c].pc = "local"]
                /\ UNCHANGED <<sustainabilityCache, tabDataCache, badgeText, badgeColor>>
  /\ UNCHANGED <<csVars, nextId>>
  /\ UNCHANGED <<popup, flashInterval>>

\* getSustainabilityData has resolved: the local lookup, then fetchFromApi up
\* to its POST (it rejects at once when the brand is missing)
DevLocal(c) ==
  /\ c \in DOMAIN checks
  /\ checks[c].pc = "local"
  /\ LET brand == checks[c].info.brand
         found == findBrandData(getHardcodedBrands, brand)
     IN IF ~found.null THEN DevFinish(c, found, NoText, 0)
        ELSE IF ~Truthy(brand) THEN DevFinish(c, generateFallbackData, ErrMissingBrand, 0)
        ELSE /\ checks' = [checks EXCEPT ![c].pc = "post", ![c].posts = 1]
             /\ UNCHANGED <<sustainabilityCache, tabDataCache, badgeText, badgeColor>>
  /\ UNCHANGED <<csVars, scrapedProductsHistory, nextId>>
  /\ UNCHANGED <<popup, flashInterval>>

\* what fetchFromApi returns for an OK answer to POST /api/product
DevPostResult(body) ==
  IF body.success
  THEN IF body.status = "processing"
       THEN IF body.data.null THEN Data(Absent, "none", body.product_id)
            ELSE [body.data EXCEPT !.product_id = body.product_id]
       ELSE body.data
  ELSE ResponseAsData

\* handleSustainabilityCheck after fetchFromApi has returned data
DevAfterFetch(c, data) ==
  IF ~data.null /\ data.certainty = "pending" /\ data.product_id # NoPid
  THEN /\ checks' = [checks EXCEPT ![c].pc = "poll", ![c].attempt = 0, ![c].polls = 1]
       /\ UNCHANGED <<sustainabilityCache, tabDataCache, badgeText, badgeColor>>
  ELSE DevFinish(c, data, NoText, 0)

\* the answer to POST /api/product arrives, or the abort timer fires
DevPostResponse(c, bodies) ==
  /\ c \in DOMAIN checks
  /\ checks[c].pc = "post"
  /\ \/ DevFinish(c, generateFallbackData, ErrNetwork, 0)
     \/ DevFinish(c, generateFallbackData, ErrAbort, 0)
     \/ /\ checks' = [checks EXCEPT ![c].pc = "fallback", ![c].gets = 1]
        /\ UNCHANGED <<sustainabilityCache, tabDataCache, badgeText, badgeColor>>
     \/ \E body \in bodies : DevAfterFetch(c, DevPostResult(body))
  /\ UNCHANGED <<csVars, scrapedProductsHistory, nextId>>
  /\ UNCHANGED <<popup, flashInterval>>

\* the answer to the fallback GET /api/score arrives
DevFallbackResponse(c, bodies) ==
  /\ c \in DOMAIN checks
  /\ checks[c].pc = "fallback"
  /\ \/ DevFinish(c, generateFallbackData, ErrNetwork, 0)
     \/ DevFinish(c, generateFallbackData, ErrApiReturned, 0)
     \/ \E body \in bodies :
          DevAfterFetch(c, IF body.success /\ ~body.data.null THEN body.data
                           ELSE ResponseAsData)
  /\ UNCHANGED <<csVars, scrapedProductsHistory, nextId>>
  /\ UNCHANGED <<popup, flashInterval>>

\* pollForUpdates: the loop header after an attempt has ended; when the
\* attempts are used up the default record is returned
DevNextAttempt(c) ==
  IF checks[c].attempt + 1 < maxAttempts
  THEN /\ checks' = [checks EXCEPT ![c].pc = "poll", ![c].attempt = @ + 1, ![c].polls = @ + 1]
       /\ UNCHANGED <<sustainabilityCache, tabDataCache, badgeText, badgeColor>>
  ELSE DevFinish(c, PollTimeoutData, NoText, maxAttempts)

\* the answer to GET /api/product/{id}/status arrives
DevStatusResponse(c, bodies) ==
  /\ c \in DOMAIN checks
  /\ checks[c].pc = "poll"
  /\ \/ DevNextAttempt(c)
     \/ /\ checks' = [checks EXCEPT ![c].pc = "sleep"]
        /\ UNCHANGED <<sustainabilityCache, tabDataCache, badgeText, badgeColor>>
     \/ \E body \in bodies :
          IF body.success /\ body.status = "completed"
          THEN IF checks[c].tab # NoTab /\ body.data.null
               THEN DevNextAttempt(c)
               ELSE DevFinish(c, body.data, NoText, checks[c].attempt)
          ELSE /\ checks' = [checks EXCEPT ![c].pc = "sleep"]
               /\ UNCHANGED <<sustainabilityCache, tabDataCache, badgeText, badgeColor>>
  /\ UNCHANGED <<csVars, scrapedProductsHistory, nextId>>
  /\ UNCHANGED <<popup, flashInterval>>

\* the two-second wait between attempts ends
DevSleepDone(c) ==
  /\ c \in DOMAIN checks
  /\ checks[c].pc = "sleep"
  /\ DevNextAttempt(c)
  /\ UNCHANGED <<csVars, scrapedProductsHistory, nextId>>
  /\ UNCHANGED <<popup, flashInterval>>

NextDev ==
  \/ \E tab \in Tabs \cup {NoTab}, info \in WorkerInfos : ClientRequest(tab, info)
  \/ \E c \in CheckIds : DevReceive(c)
  \/ \E c \in CheckIds : DevLocal(c)
  \/ \E c \in CheckIds : DevPostResponse(c, CsPostBodies)
  \/ \E c \in CheckIds : DevFallbackResponse(c, CsFallbackBodies)
  \/ \E c \in CheckIds : DevStatusResponse(c, CsStatusBodies)
  \/ \E c \in CheckIds : DevSleepDone(c)

SpecDev == InitWorker /\ [][NextDev]_vars


\* ------------------------------------------------------------------ popup
\* The popup alone: every response it can receive and every weight setting.
PopupScores == {Undefined, -1, 0, 1, 7, 10}
PopupWeightValues == {MissingWeight, 2, 3, 10}
PopupBreakdowns ==
  {NoBreakdown} \cup { <<p, c, m>> : p \in PopupScores, c \in PopupScores, m \in PopupScores }
PopupWeights == { <<p, c, m>> : p \in PopupWeightValues, c \in PopupWeightValues,
                                 m \in PopupWeightValues }

PopupTexts ==
  { <<MetricTexts("Good", "text"), MetricTexts("Unknown", NoValue), MetricTexts(NoValue, "text")>>,
    <<MetricTexts(NoValue, NoValue), MetricTexts("Good", NoValue), MetricTexts("Unknown", "text")>> }

InitPopup ==
  InitState({EmptyPage},
            { PopupReceived(TRUE, sc, b, t, w) :
                sc \in {Undefined, 80}, b \in PopupBreakdowns, t \in PopupTexts,
                w \in PopupWeights }
            \cup { PopupReceived(FALSE, Undefined, NoBreakdown, NoTexts, w) :
                     w \in PopupWeights })

NextPopup ==
  \/ handleSustainabilityData
  \/ settingsCallback
  \/ showDetails

SpecPopup == InitPopup /\ [][NextPopup]_vars

\* The popup with the service worker behind it: the page is opened, shows a
\* result, and is reloaded when the weights are changed.
ReweighWeights == { <<MissingWeight, MissingWeight, MissingWeight>>, <<3, 10, 2>> }
ReweighBreakdowns == { <<7, 10, 1>> }

NextReweigh ==
  \/ popupInit
  \/ \E c \in CheckIds : SWReceive(c)
  \/ \E c \in CheckIds : PostResponse(c, GatePostBodies)
  \/ \E c \in CheckIds : FallbackResponse(c, CsFallbackBodies)
  \/ \E c \in CheckIds, b \in ReweighBreakdowns, t \in PopupTexts : popupCallback(c, b, t)
  \/ handleSustainabilityData
  \/ settingsCallback
  \/ \E w \in ReweighWeights : refreshEcoShopPopup(w)

SpecReweigh == InitWith({EmptyPage, PageS}) /\ [][NextReweigh]_vars


\* The same with the content script of the active tab sending its check, so
\* that the tab has an icon badge. The setBadgeScore message that
\* settingsCallback sends matches no branch of the service worker's message
\* listeners and changes nothing there.
NextBadge ==
  \/ popupInit
  \/ \E tab \in Tabs : ClientRequest(tab, extractProductInfo(PageS))
  \/ \E c \in CheckIds : SWReceive(c)
  \/ \E c \in CheckIds : PostResponse(c, GatePostBodies)
  \/ \E c \in CheckIds : FallbackResponse(c, CsFallbackBodies)
  \/ \E c \in CheckIds, b \in ReweighBreakdowns, t \in PopupTexts : popupCallback(c, b, t)
  \/ handleSustainabilityData
  \/ settingsCallback
  \/ \E w \in ReweighWeights : refreshEcoShopPopup(w)

SpecBadge == InitWith({PageS}) /\ [][NextBadge]_vars

\* ------------------------------------------------------------------ claims
\* the messages the content script sent while the poll had detected w changes
WindowChecks(w) == { c \in DOMAIN checks : checks[c].origin = "content" /\ checks[c].win = w }

RECURSIVE SumPosts(_)
SumPosts(S) == IF S = {} THEN 0
               ELSE LET c == CHOOSE x \in S : TRUE IN checks[c].posts + SumPosts(S \ {c})

\* an extraction by the load attempt, the retry or the observer that succeeds
ExtractionSuccess ==
  /\ Dispatchable(extractProductInfo(dom))
  /\ FirstAttempt \/ RetryAttempt \/ ObserverCallback

\* C1: between two detected URL changes the content script sends exactly one
\* checkSustainability message however many extractions succeed: every window
\* has at most one message and at most one POST /api/product, an extraction
\* success leaves exactly one message for the current window, and a success
\* while the gate is set sends nothing.
C1_OneDispatchPerWindow ==
  /\ [](\A w \in 0..MaxNav : Cardinality(WindowChecks(w)) <= 1 /\ SumPosts(WindowChecks(w)) <= 1)
  /\ [][ExtractionSuccess =>
          /\ Cardinality(WindowChecks(urlWindow)') = 1
          /\ hasRequestedData => UNCHANGED checks]_vars

\* C1 witness: two URL windows, each with its one message, and an extraction
\* attempt of the load handler behind us
C1_Witness ==
  /\ urlWindow = 1
  /\ loadPc = "done"
  /\ Cardinality(WindowChecks(0)) = 1
  /\ Cardinality(WindowChecks(1)) = 1

\* the gate falls only in a URL poll that sees location.href differ from
\* currentUrl, and while it is set the content script sends no message
GateResetOnlyByUrlPoll ==
  /\ [][(hasRequestedData /\ ~hasRequestedData') => (href # currentUrl /\ currentUrl' = href)]_vars
  /\ [][hasRequestedData =>
          \A w \in 0..MaxNav : WindowChecks(w)' = WindowChecks(w)]_vars

\* C2: the gate, once set, stays set until the URL poll observes that
\* location.href differs from currentUrl, no other event resets it, and so
\* the content script sends no second message for the same URL: no two of
\* its messages were sent during the same visit of a URL.
C2_GateHeldForUrl ==
  /\ GateResetOnlyByUrlPoll
  /\ [](\A c, d \in DOMAIN checks :
          (/\ c # d
           /\ checks[c].origin = "content"
           /\ checks[d].origin = "content") => checks[c].nav # checks[d].nav)

\* the step in which the service worker takes up message c
Received(c) == checks[c].pc = "sent" /\ checks'[c].pc # "sent"

\* the brand of message c has an entry in sustainabilityCache
CacheHit(c) ==
  /\ Truthy(cacheKeyOf(checks[c].info))
  /\ ~CacheLookup(cacheKeyOf(checks[c].info)).null

\* the step in which the handler of message c sends its response
Responds(c) == checks[c].pc # "responded" /\ checks'[c].pc = "responded"

\* C3: a message for a brand whose key is in sustainabilityCache is answered
\* at once with success and the cached record, and no request (POST
\* /api/product, GET /api/score, status poll) is made for it.
C3_CacheHitServesCachedRecord ==
  [][\A c \in DOMAIN checks :
       (Received(c) /\ CacheHit(c)) =>
          /\ checks'[c].pc = "responded"
          /\ checks'[c].response.success
          /\ checks'[c].response.data = CacheLookup(cacheKeyOf(checks[c].info))
          /\ checks'[c].posts = 0 /\ checks'[c].gets = 0 /\ checks'[c].polls = 0]_vars

\* C4: once a message for a brand has been answered with a record, a message
\* whose brand differs from it only in letter case or in leading/trailing
\* whitespace is served from the same cache entry: no POST /api/product.
C4_KeyLowercasedAndTrimmed ==
  [][\A c \in DOMAIN checks :
       (/\ Received(c)
        /\ Truthy(checks[c].info.brand)
        /\ \E d \in DOMAIN checks :
              /\ checks[d].pc = "responded"
              /\ checks[d].response.success
              /\ Truthy(checks[d].info.brand)
              /\ trim(toLowerCase(checks[d].info.brand)) = trim(toLowerCase(checks[c].info.brand)))
       => checks'[c].posts = 0]_vars

\* C5: a brand cache entry, once stored, is never replaced.
C5_FirstWriteWins ==
  [][\A k \in DOMAIN sustainabilityCache :
       ~sustainabilityCache[k].null => sustainabilityCache'[k] = sustainabilityCache[k]]_vars

\* the failure class of an error thrown by fetchFromApi or pollForUpdates
FailureClass(e) ==
  IF e = ErrNetwork THEN "transport"
  ELSE IF e \in {ErrAbort, ErrPollTimeout} THEN "timeout"
  ELSE IF e = ErrNoData THEN "not-found"
  ELSE "other"

\* C9: checks that failed in different classes (transport error, timeout,
\* not-found) are answered with different error/message texts.
C9_FailureClassesHaveDistinctMessages ==
  \A c, d \in DOMAIN checks :
     (/\ checks[c].pc = "responded" /\ checks[d].pc = "responded"
      /\ FailureClass(checks[c].thrown) # "other"
      /\ FailureClass(checks[d].thrown) # "other"
      /\ FailureClass(checks[c].thrown) # FailureClass(checks[d].thrown))
     => <<checks[c].response.error, checks[c].response.message>>
          # <<checks[d].response.error, checks[d].response.message>>

\* C10: the step that ends a check with a non-success response changes
\* neither the icon badge text or colour of any tab, nor tabDataCache, nor the
\* brand cache (no earlier step of a check touches them).
C10_ErrorLeavesBadgeAndCaches ==
  [][\A c \in DOMAIN checks :
       (Responds(c) /\ ~checks'[c].response.success)
       => UNCHANGED <<badgeText, badgeColor, tabDataCache, sustainabilityCache>>]_vars

\* message c of the content script is stale: the tab has since changed URL
\* and the content script has sent a newer message for it
Stale(c) ==
  /\ checks[c].origin = "content"
  /\ \E d \in DOMAIN checks :
        /\ d > c
        /\ checks[d].origin = "content"
        /\ checks[d].tab = checks[c].tab
        /\ checks[d].nav > checks[c].nav

\* C6: once a newer message exists for the tab's new URL, no step of the stale
\* check (in the service worker or in the content script's response callback)
\* updates the tab's icon badge, its tabDataCache entry or the on-page badge.
C6_StaleResultNotApplied ==
  [][\A c \in DOMAIN checks :
       (Stale(c) /\ checks'[c] # checks[c])
       => UNCHANGED <<badgeText, badgeColor, tabDataCache, pageBadges, displayJobs>>]_vars

\* the content-script half of C6 alone
C6_StaleResultNotDisplayed ==
  [][\A c \in DOMAIN checks :
       (Stale(c) /\ checks'[c] # checks[c]) => UNCHANGED <<pageBadges, displayJobs>>]_vars

\* the errors with which a gateway call fails
GatewayFailures == {ErrNetwork, ErrAbort, ErrApiReturned, ErrNoData}

\* C8: a check whose gateway call failed is answered with a non-success
\* result that carries a message and no numeric score, and stores no record
\* in the brand cache or the tab cache.
C8_GatewayFailureGivesNoScore ==
  [][\A c \in DOMAIN checks :
       (Responds(c) /\ checks'[c].thrown \in GatewayFailures) =>
          /\ ~checks'[c].response.success
          /\ checks'[c].response.error # NoText \/ checks'[c].response.message # NoText
          /\ checks'[c].response.data.score = Absent
          /\ UNCHANGED <<sustainabilityCache, tabDataCache>>]_vars

\* C7: a check whose poll loop used up its attempts (the loop counter has
\* reached maxAttempts) is answered with a non-success result that carries a
\* message and no numeric score, and nothing is cached or shown on the badge.
C7_PollTimeoutGivesNoScore ==
  [][\A c \in DOMAIN checks :
       (Responds(c) /\ checks'[c].attempt = maxAttempts) =>
          /\ ~checks'[c].response.success
          /\ checks'[c].response.error # NoText \/ checks'[c].response.message # NoText
          /\ checks'[c].response.data.score = Absent
          /\ UNCHANGED <<sustainabilityCache, tabDataCache, badgeText>>]_vars

\* the handler of message c is inside pollForUpdates
Polling(c) == checks[c].pc \in {"poll", "sleep"}

\* progress of the poll loop of message c: two units per attempt, one more
\* while it waits
PollMeasure(c) == 2 * checks[c].attempt + (IF checks[c].pc = "sleep" THEN 1 ELSE 0)

\* C11: pollForUpdates sends at most maxAttempts status requests, and it
\* terminates: every step of the loop either advances it (bounded by the
\* attempt budget) or leaves it, and it is left either from inside the loop
\* with a return (attempt < maxAttempts, no timeout) or after the last
\* attempt with the timeout error.
C11_PollBoundedAndTerminates ==
  /\ [](\A c \in DOMAIN checks :
          /\ checks[c].polls <= maxAttempts
          /\ Polling(c) => PollMeasure(c) < 2 * maxAttempts)
  /\ [][\A c \in DOMAIN checks :
          (Polling(c) /\ checks'[c] # checks[c]) =>
             \/ /\ checks'[c].pc \in {"poll", "sleep"}
                /\ 2 * checks'[c].attempt + (IF checks'[c].pc = "sleep" THEN 1 ELSE 0)
                     > PollMeasure(c)
                /\ checks'[c].polls = checks'[c].attempt + 1
             \/ /\ checks'[c].pc = "responded"
                /\ checks'[c].attempt < maxAttempts
                /\ checks'[c].thrown # ErrPollTimeout
                /\ checks'[c].polls = checks[c].polls
             \/ /\ checks'[c].pc = "responded"
                /\ checks'[c].attempt = maxAttempts
                /\ checks'[c].thrown = ErrPollTimeout
                /\ checks'[c].polls = maxAttempts]_vars

\* C11 witness: one poll loop has ended in the timeout after maxAttempts
\* status requests and another has returned a completed payload
C11_Witness ==
  \E c, d \in DOMAIN checks :
     /\ checks[c].pc = "responded" /\ checks[c].polls = maxAttempts
     /\ checks[c].thrown = ErrPollTimeout
     /\ checks[d].pc = "responded" /\ checks[d].polls >= 1
     /\ checks[d].response.success /\ checks[d].response.data.score = 35

\* C12: a polling attempt that ends in a transport error (a rejected fetch or
\* a non-OK response) does not end the loop: the loop goes on to the next
\* attempt (after the wait, for a non-OK response), and ends in the timeout
\* only when that attempt was the last of the budget; the loop is never left
\* with a transport error, and the timeout is thrown only after maxAttempts
\* status requests.
C12_PollErrorsDoNotAbort ==
  /\ [][\A c \in DOMAIN checks :
          (Polling(c) /\ checks'[c].errs = checks[c].errs + 1) =>
             \/ /\ checks'[c].pc = "poll"
                /\ checks'[c].attempt = checks[c].attempt + 1
                /\ checks'[c].attempt < maxAttempts
             \/ /\ checks'[c].pc = "sleep"
                /\ checks'[c].attempt = checks[c].attempt
             \/ /\ checks'[c].pc = "responded"
                /\ checks'[c].thrown = ErrPollTimeout
                /\ checks[c].attempt + 1 = maxAttempts]_vars
  /\ [][\A c \in DOMAIN checks :
          (checks[c].pc = "sleep" /\ checks'[c] # checks[c]) =>
             \/ checks'[c].pc = "poll" /\ checks'[c].attempt = checks[c].attempt + 1
             \/ /\ checks'[c].pc = "responded"
                /\ checks'[c].thrown = ErrPollTimeout
                /\ checks[c].attempt + 1 = maxAttempts]_vars
  /\ [][\A c \in DOMAIN checks :
          (Polling(c) /\ checks'[c].pc = "responded") =>
             checks'[c].thrown \in {NoText, ErrType, ErrPollTimeout}]_vars
  /\ [](\A c \in DOMAIN checks :
          checks[c].thrown = ErrPollTimeout => checks[c].polls = maxAttempts)

\* C12 witness: one loop went on after a transport error and then returned a
\* completed payload; in another every attempt ended in a transport error and
\* the timeout followed
C12_Witness ==
  \E c, d \in DOMAIN checks :
     /\ checks[c].pc = "responded" /\ checks[c].errs >= 1 /\ checks[c].response.success
     /\ checks[d].pc = "responded" /\ checks[d].errs = maxAttempts
     /\ checks[d].thrown = ErrPollTimeout

\* C13: a task status of "error" is terminal: once a status request has
\* been answered with status error the poll loop has stopped, the check is
\* resolved with a non-success response, and no further status request is
\* sent for the task.
C13_TaskErrorIsTerminal ==
  /\ [](\A c \in DOMAIN checks :
          checks[c].seen = "error" =>
             checks[c].pc = "responded" /\ ~checks[c].response.success)
  /\ [][\A c \in DOMAIN checks :
          checks[c].seen = "error" => checks'[c].polls = checks[c].polls]_vars

\* a record that is the handle of a pending task: it carries the product id
\* the submission returned with status processing
PendingPlaceholder(data) == ~data.null /\ data.product_id # NoPid

\* C14: a submission answered with a pending task (status processing and a
\* product id) is followed by polling before the response: the step that
\* answers a check straight from the submission never returns the task's
\* placeholder, and no placeholder is ever stored in the brand cache or in
\* tabDataCache or returned to the caller.
C14_PendingTaskIsPolled ==
  /\ [](/\ \A k \in DOMAIN sustainabilityCache : ~PendingPlaceholder(sustainabilityCache[k])
        /\ \A t \in DOMAIN tabDataCache : ~PendingPlaceholder(tabDataCache[t])
        /\ \A c \in DOMAIN checks :
              checks[c].pc = "responded" => ~PendingPlaceholder(checks[c].response.data))
  /\ [][\A c \in DOMAIN checks :
          (checks[c].pc = "post" /\ Responds(c))
          => ~PendingPlaceholder(checks'[c].response.data)]_vars

\* the conditions fetchFromApi fails with when the gateway has no record
NotFoundConditions == {ErrNoData, ErrApiReturned, ErrInvalid}

\* C15: a submission cut off by the abort timer makes fetchFromApi fail with
\* "API request timed out" (never with what fetch rejected with): the check is
\* then answered without a data record, after one POST and no other request,
\* and nothing is cached; the condition differs from every not-found or
\* no-data condition, which arise only from an answered request.
C15_AbortIsDistinctTimeout ==
  /\ [](\A c \in DOMAIN checks :
          /\ checks[c].thrown # ErrAborted
          /\ checks[c].thrown = ErrAbort =>
                /\ checks[c].pc = "responded"
                /\ ~checks[c].response.success
                /\ checks[c].response.data.null
                /\ checks[c].posts = 1 /\ checks[c].gets = 0 /\ checks[c].polls = 0
                /\ checks[c].thrown \notin NotFoundConditions \cup {ErrNetwork, ErrMissingBrand})
  /\ [][\A c \in DOMAIN checks :
          (Responds(c) /\ checks'[c].thrown = ErrAbort)
          => UNCHANGED <<sustainabilityCache, tabDataCache, badgeText, badgeColor>>]_vars

C15_Witness ==
  \E c, d \in DOMAIN checks :
     /\ checks[c].pc = "responded" /\ checks[c].thrown = ErrAbort /\ checks[c].posts = 1
     /\ checks[d].pc = "responded" /\ checks[d].thrown = ErrNoData /\ checks[d].gets = 1

\* C16: a call of handleSustainabilityCheck sends POST /api/product at most
\* once: the count of submissions never exceeds one, and a check that has
\* left the submission (answered, failed or timed out) never submits again.
C16_SingleSubmission ==
  /\ [](\A c \in DOMAIN checks : checks[c].posts <= 1)
  /\ [][\A c \in DOMAIN checks :
          /\ checks[c].posts = 1 => checks'[c].posts = 1
          /\ (checks[c].posts = 1 /\ checks[c].pc # "post") => checks'[c].pc # "post"]_vars

C16_Witness ==
  \E c, d \in DOMAIN checks :
     /\ checks[c].pc = "responded" /\ checks[c].thrown = ErrNetwork
     /\ checks[c].posts = 1 /\ checks[c].gets = 0
     /\ checks[d].pc = "responded" /\ checks[d].thrown = ErrAbort /\ checks[d].posts = 1
     /\ checks[d].info = checks[c].info

\* all three raw scores of breakdown b are numbers in [0,10]
ScoresInRange(b) == b # NoBreakdown /\ \A i \in 1..3 : b[i] >= 0 /\ b[i] <= 10

\* all three weights are set and lie in [1,5] (2..10 in half units)
WeightsInRange(w) == \A i \in 1..3 : w[i] >= 2 /\ w[i] <= 10

\* breakdown t has every raw score at least as large as breakdown b
AtLeast(t, b) == \A i \in 1..3 : t[i] >= b[i]

\* C17: for raw scores in [0,10] and weights in [1,5] the composite the popup
\* shows is a number in [0,100], and no breakdown with larger raw scores (and
\* the same weights) gets a smaller composite.
C17_CompositeInRangeAndMonotone ==
  (popup.pc = "shown" /\ ScoresInRange(popup.breakdown) /\ WeightsInRange(popup.weights))
  => /\ popup.mainScore >= 0 /\ popup.mainScore <= 100
     /\ \A t \in PopupBreakdowns :
           (ScoresInRange(t) /\ AtLeast(t, popup.breakdown))
           => mainScoreOf(t, popup.weights) >= popup.mainScore

\* C18: for weights in [1,5], three raw scores of 10 give the composite 100
\* and three raw scores of 0 give the composite 0, a number.
C18_AllTenIsHundredAllZeroIsZero ==
  (popup.pc = "shown" /\ WeightsInRange(popup.weights))
  => /\ popup.breakdown = <<10, 10, 10>> => popup.mainScore = 100
     /\ popup.breakdown = <<0, 0, 0>> => popup.mainScore = 0

\* no category of breakdown b has a raw score
NoCategoryData(b) == b = NoBreakdown \/ \A i \in 1..3 : b[i] = Undefined

\* C19: when no category has a raw score (or the breakdown is missing) the
\* composite is absent and shown as "Unknown", never as 0; and the composite
\* is absent only then.
C19_AbsentOnlyWithoutData ==
  popup.pc = "shown"
  => /\ NoCategoryData(popup.breakdown)
          => /\ popup.mainScore = Undefined
             /\ popup.scoreText = UnknownText
             /\ popup.badgeScore = Undefined
     /\ popup.mainScore = Undefined => NoCategoryData(popup.breakdown)

\* ceil(10 * sum(raw_i * weight_i) / sum(weight_i)) in exact arithmetic, with
\* absent and negative raw scores counted as 0 and missing weights as 5,
\* clamped to [0,100]
ExactComposite(b, w) ==
  LET num == 10 * (calculationScore(b[1]) * fieldWeight(w[1])
                   + calculationScore(b[2]) * fieldWeight(w[2])
                   + calculationScore(b[3]) * fieldWeight(w[3]))
      den == totalWeight(w)
      up == (num + den - 1) \div den
  IN IF up > 100 THEN 100 ELSE up

\* C20: when at least one category has a raw score, the composite is the
\* ceiling of ten times the weighted mean of the raw scores, clamped to
\* [0,100].
C20_CompositeIsCeilOfWeightedMean ==
  (popup.pc = "shown" /\ ~NoCategoryData(popup.breakdown))
  => popup.mainScore = ExactComposite(popup.breakdown, popup.weights)

\* C21: the category entries the popup shows and stores for the details view
\* (rating score, value text, analysis, meter) are those every other weight
\* setting gives for the same breakdown; weights reach only the composite.
C21_EntriesIndependentOfWeights ==
  popup.pc \in {"shown", "details"}
  => \A w \in PopupWeights :
        detailsData(popup.breakdown, popup.texts, w) = popup.details

C21_Witness ==
  /\ popup.pc = "details"
  /\ popup.weights = <<3, 10, 2>>
  /\ popup.breakdown = <<7, 10, 1>>
  /\ popup.details[1].score = 7 /\ popup.details[1].value = "Good"
  /\ popup.mainScore # mainScoreOf(popup.breakdown, <<10, 10, 10>>)

\* a successful result has been returned for the product of message c
ResultObtained(c) ==
  \E d \in DOMAIN checks :
     /\ d # c
     /\ checks[d].pc = "responded"
     /\ checks[d].response.success
     /\ checks[d].info = checks[c].info

\* C22: once a result for the product has been obtained, the popup's message
\* after a reload (weights changed, refreshEcoShopPopup) is answered at once
\* with a record and without a POST, a fallback GET or a status request, and
\* the composite then shown is the one the new weights give.
C22_ReweighWithoutGateway ==
  /\ [][\A c \in DOMAIN checks :
          (Received(c) /\ checks[c].origin = "popup" /\ ResultObtained(c))
          => /\ checks'[c].pc = "responded"
             /\ checks'[c].response.success
             /\ checks'[c].posts = 0 /\ checks'[c].gets = 0 /\ checks'[c].polls = 0]_vars
  /\ [](popup.pc = "shown"
        => popup.mainScore = mainScoreOf(popup.breakdown, popup.weights))

C22_Witness ==
  /\ popup.pc = "shown"
  /\ popup.weights = <<3, 10, 2>>
  /\ popup.check = 2
  /\ checks[1].response.success /\ checks[1].posts = 1
  /\ checks[2].response.success /\ checks[2].posts = 0
  /\ popup.mainScore # mainScoreOf(popup.breakdown, <<MissingWeight, MissingWeight, MissingWeight>>)

\* a rating rendered as a number within 0..10
ShownAsNumber(rating) == rating[1] = "number" /\ rating[2] \in 0..10

\* C23: in the popup summary and in the details view a raw score that is
\* present is rendered as a number within 0..10 (a present 0 as 0) and an
\* absent one as the no-data marker, so the two are never rendered alike.
C23_PresentAndAbsentShownApart ==
  (popup.pc = "details" /\ popup.breakdown # NoBreakdown)
  => \A i \in 1..3 :
        /\ popup.breakdown[i] \in 0..10
           => /\ ShownAsNumber(popup.details[i].rating)
              /\ ShownAsNumber(popup.detailsView[i].rating)
              /\ popup.breakdown[i] = 0
                 => /\ popup.details[i].rating = <<"number", 0>>
                    /\ popup.detailsView[i].rating = <<"number", 0>>
        /\ popup.breakdown[i] = Undefined
           => /\ popup.details[i].rating = NoRating
              /\ popup.detailsView[i].rating = NoRating

\* the band a score belongs to; none stands for an absent score
BandOf(score, none) ==
  IF score = none THEN "unknown"
  ELSE IF score >= 70 THEN "good"
  ELSE IF score >= 40 THEN "fair"
  ELSE "poor"

\* the band a colour stands for
ColourBand(colour) ==
  CASE colour = "green" -> "good"
    [] colour \in {"amber", "orange"} -> "fair"
    [] colour = "red" -> "poor"
    [] OTHER -> "unknown"

\* C24: every colour shown for a score is the one of the score's band: good
\* from 70, fair from 40 to 69, poor below 40, and the neutral unknown band,
\* never poor, for an absent score. This covers the colour of the toolbar
\* badge set by updateBadgeForTab, of the badge on the page and of the popup.
C24_ColourMatchesBand ==
  /\ [][\A c \in DOMAIN checks :
          (Responds(c) /\ checks[c].tab # NoTab /\ badgeColor'[checks[c].tab] # badgeColor[checks[c].tab])
          => \E score \in 0..100 \cup {Absent} :
                /\ ColourBand(badgeColor'[checks[c].tab]) = BandOf(score, Absent)
                /\ checks'[c].thrown = ErrType <=> score = Absent
                /\ checks'[c].response.success => score = checks'[c].response.data.score]_vars
  /\ [](\A i \in 1..Len(pageBadges) :
          ColourBand(getColorForScore(pageBadges[i])) = BandOf(pageBadges[i], Absent))
  /\ [](popup.pc = "shown"
        => ColourBand(getScoreColor(popup.mainScore)) = BandOf(popup.mainScore, Undefined))

\* the short badge text that stands for "no data"
NoDataBadge == <<"no data", 0>>

\* C25: for a check sent from a tab, the badge update never throws, and a
\* check that obtained a record ends with success and with the tab's badge
\* text set to the score when it is present and to the no-data marker when it
\* is absent.
C25_BadgeUpdateNeverFails ==
  [][\A c \in DOMAIN checks :
       (Responds(c) /\ checks[c].tab # NoTab)
       => /\ checks'[c].thrown # ErrType
          /\ checks'[c].response.success
             => badgeText'[checks[c].tab] =
                  IF checks'[c].response.data.score = Absent THEN NoDataBadge
                  ELSE ScoreText(checks'[c].response.data.score)]_vars

\* a ProductInfo whose brand and name are both empty
EmptyProduct(info) == ~Truthy(info.brand) /\ ~Truthy(info.name)

\* C26: the content script sends no message for a ProductInfo whose brand and
\* name are both empty, and the message the popup sends for one causes no
\* request to the gateway (POST, fallback GET, status GET) and no write to
\* sustainabilityCache, tabDataCache or scrapedProductsHistory.
C26_EmptyProductCausesNothing ==
  /\ [](\A c \in DOMAIN checks :
          (checks[c].pc # "closed" /\ EmptyProduct(checks[c].info))
          => /\ checks[c].origin = "popup"
             /\ checks[c].posts = 0 /\ checks[c].gets = 0 /\ checks[c].polls = 0)
  /\ [][\A c \in DOMAIN checks :
          (checks[c].pc # "closed" /\ EmptyProduct(checks[c].info) /\ checks'[c] # checks[c])
          => UNCHANGED <<sustainabilityCache, tabDataCache, scrapedProductsHistory>>]_vars

C26_Witness ==
  /\ loadPc = "done"
  /\ EmptyProduct(extractProductInfo(dom))
  /\ \E c \in DOMAIN checks :
        /\ checks[c].origin = "popup"
        /\ EmptyProduct(checks[c].info)
        /\ checks[c].pc = "responded"
        /\ checks[c].thrown = ErrMissingBrand
  /\ \A c \in DOMAIN checks : checks[c].origin = "popup"
  /\ scrapedProductsHistory = <<>>

\* the observer callback would extract on a DOM mutation: the observer is
\* connected and no badge element is in the document
MutationExtractionEnabled == observerPc = "observing" /\ pageBadges = <<>>

\* C27: once the observer has been started, extraction on DOM mutation is
\* enabled as long as nothing has been dispatched for the current URL; in
\* particular after a URL change has been detected and before the dispatch
\* for the new URL, whether or not a badge was displayed for the previous
\* URL, so that a mutation that makes the product extractable is dispatched.
C27_MutationExtractionReenabled ==
  (navCount > 0 /\ currentUrl = href /\ ~hasRequestedData /\ observerPc # "waiting")
  => MutationExtractionEnabled

\* message c is sent in this step
Sends(c) == c \notin DOMAIN checks /\ c \in DOMAIN checks'

\* i is the first position of els whose element has non-blank text
FirstWithText(els, i) ==
  /\ els[i] # NullStr /\ trim(els[i]) # EmptyStr
  /\ \A j \in 1..(i - 1) : els[j] = NullStr \/ trim(els[j]) = EmptyStr

\* C28: on a page without meta tags, the brand of the extracted product is the
\* trimmed text of the first brand selector whose element has non-blank text,
\* whatever the name selectors match, and the name is the trimmed text of the
\* first such name selector, whatever the brand selectors match; later
\* selectors are ignored, and a field without such a selector gets nothing
\* from the selectors.
C28_FirstSelectorWithTextWins ==
  [][\A c \in CheckIds :
       (Sends(c) /\ dom.metaBrand = NullStr /\ dom.metaName = NullStr)
       => /\ \A i \in 1..Len(dom.brandEls) :
                FirstWithText(dom.brandEls, i) => checks'[c].info.brand = trim(dom.brandEls[i])
          /\ \A i \in 1..Len(dom.nameEls) :
                FirstWithText(dom.nameEls, i) => checks'[c].info.name = trim(dom.nameEls[i])
          /\ (\A i \in 1..Len(dom.nameEls) : ~FirstWithText(dom.nameEls, i))
             => checks'[c].info = extractProductInfo(EmptyPage)
                \/ (checks'[c].info.name = NullStr /\ Truthy(checks'[c].info.brand))]_vars

C28_Witness ==
  /\ dom.brandEls = <<NullStr, <<" ">>, <<"U">>>>
  /\ dom.nameEls = <<<<" ">>, <<" ", "y">>, <<"z">>>>
  /\ dom.metaBrand = NullStr /\ dom.metaName = NullStr
  /\ \E c \in DOMAIN checks :
        /\ checks[c].origin = "content"
        /\ checks[c].info.brand = <<"U">>
        /\ checks[c].info.name = <<"y">>

\* the trimmed text the selector search found for a field, NullStr if none
SelectorValue(els) == IF firstHit(els) = NullStr THEN NullStr ELSE trim(firstHit(els))

\* C29: the meta tags are used only when the selector search found neither
\* brand nor name: a brand or a name found by a selector is the one sent,
\* whatever the meta tags hold.
C29_MetaOnlyWhenBothEmpty ==
  [][\A c \in CheckIds :
       Sends(c)
       => /\ Truthy(SelectorValue(dom.brandEls))
             => checks'[c].info.brand = SelectorValue(dom.brandEls)
          /\ Truthy(SelectorValue(dom.nameEls))
             => checks'[c].info.name = SelectorValue(dom.nameEls)]_vars

\* ch is an uppercase letter
IsUpperLetter(ch) == \E i \in 1..Len(UpperLetters) : UpperLetters[i] = ch

\* the brand that the inference rules, taken in their order, give for a name
InferredBrand(name) ==
  LET m == BracketMatch(name)
      w == FirstWord(name)
  IN IF Truthy(KnownBrandIn(name)) THEN KnownBrandIn(name)
     ELSE IF Truthy(m) /\ Truthy(trim(m)) /\ Len(trim(m)) < BracketMaxLen
             /\ trim(m) \notin BracketStopwords
     THEN trim(m)
     ELSE IF w # <<>> /\ IsUpperLetter(w[1]) /\ Len(w) > 2 THEN w
     ELSE NullStr

\* C30: when neither a selector nor a meta tag gives a brand and the name is
\* present, the brand sent is the first known brand the name contains;
\* otherwise the text of its first bracket pair if that is not one of the
\* generic words and is shorter than the limit; otherwise its first word if
\* that starts with an uppercase letter and has more than two characters;
\* otherwise no brand.
C30_BrandInferencePriority ==
  [][\A c \in CheckIds :
       (Sends(c) /\ ~Truthy(SelectorValue(dom.brandEls)) /\ ~Truthy(dom.metaBrand)
          /\ Truthy(checks'[c].info.name))
       => IF Truthy(InferredBrand(checks'[c].info.name))
          THEN checks'[c].info.brand = InferredBrand(checks'[c].info.name)
          ELSE ~Truthy(checks'[c].info.brand)]_vars

\* C31: the product that a message carries, and so the body of the submission
\* built from it, has in its url field the URL of the page at the time of the
\* extraction, never an absent value.
C31_UrlOfPageInProduct ==
  [][\A c \in CheckIds :
       Sends(c) => /\ checks'[c].info.url # UndefinedUrl
                   /\ checks'[c].info.url = href]_vars

\* the POST /api/product of message c has been sent and not yet answered
SubmissionInFlight(c) == checks[c].pc = "post"

\* C32: no two submissions are in flight for the same tab and brand, the
\* popup's message for the tab's page included: a message that arrives while
\* an earlier check for the brand is unresolved sends no second POST.
C32_OneSubmissionInFlight ==
  \A c, d \in DOMAIN checks :
     (c # d /\ SubmissionInFlight(c) /\ SubmissionInFlight(d)
        /\ checks[c].info.brand = checks[d].info.brand)
     => /\ checks[c].tab # checks[d].tab
        /\ checks[c].tab # NoTab
        /\ checks[d].tab # NoTab

\* the step in which the flashing started by openPopup ends for the tab
FlashEnds(tab) == flashInterval[tab] # <<>> /\ flashInterval'[tab] = <<>>

\* C33: when the flash sequence of an openPopup prompt ends, the tab's badge
\* no longer reads "OPEN", and if the tab has an entry in tabDataCache the
\* badge text is the score of that entry, a score of 0 included.
C33_BadgeRestoredAfterPrompt ==
  [][\A tab \in Tabs :
       FlashEnds(tab)
       => /\ badgeText'[tab] # OpenText
          /\ ~tabDataCache[tab].null
             => badgeText'[tab] = ScoreText(tabDataCache[tab].score)]_vars

\* C34: within a poll loop every status request after the first is sent at
\* the end of a wait of the polling interval, also when the attempt before it
\* ended in a transport error.
C34_WaitBetweenStatusRequests ==
  [][\A c \in DOMAIN checks :
       (checks[c].polls > 0 /\ checks'[c].polls > checks[c].polls)
       => checks[c].pc = "sleep"]_vars

\* C35: once the popup has computed the composite and sent setBadgeScore, a
\* score on the icon badge of the tab is that composite: badge and popup agree
\* whenever both show a score.
C35_BadgeAgreesWithPopup ==
  \A tab \in Tabs :
     (popup.pc = "shown" /\ popup.badgeScore # NotSent /\ popup.mainScore # Undefined
        /\ badgeText[tab] # NoBadgeText)
     => badgeText[tab] = ScoreText(popup.mainScore)

\* C36: every message is answered exactly once: its handler eventually calls
\* sendResponse, on whichever path it runs, and once the response has been
\* sent the handler neither sends another nor continues.
C36_ExactlyOneResponse ==
  /\ \A c \in CheckIds :
        [](c \in DOMAIN checks => <>(c \in DOMAIN checks /\ checks[c].pc = "responded"))
  /\ [][\A c \in DOMAIN checks :
          checks[c].pc = "responded"
          => /\ checks'[c].pc = "responded"
             /\ checks'[c].response = checks[c].response]_vars

C36_Witness ==
  /\ \E c \in DOMAIN checks :
        checks[c].pc = "responded" /\ checks[c].thrown = ErrType /\ checks[c].tab # NoTab
  /\ \E c \in DOMAIN checks :
        checks[c].pc = "responded" /\ checks[c].thrown = ErrPollTimeout

\* a record that is a final result: it has a score and is not pending
FinalResult(data) == data.score # Absent /\ data.certainty # "pending"

\* C37: every entry of sustainabilityCache is a final result, so the badge
\* update of a later cache hit from a tab cannot fail on it.
C37_CacheHoldsFinalResults ==
  \A k \in DOMAIN sustainabilityCache :
     ~sustainabilityCache[k].null
     => /\ FinalResult(sustainabilityCache[k])
        /\ ~BadgeThrows(sustainabilityCache[k].score)

\* the status response that message c has just handled was OK, successful
\* and completed, like every one before it in the loop: none was rejected or
\* not OK, and none carried another status
OnlyCompletedSoFar(ch) == ch.errs = 0 /\ ch.seen = "none"

\* C38: a status response that is OK, successful and completed ends the poll
\* loop on that attempt, whatever its payload and whether or not the message
\* came from a tab: a loop that has seen such responses only has sent one
\* status request, and the check ends with the payload as its result.
C38_CompletedEndsPolling ==
  /\ [](\A c \in DOMAIN checks : OnlyCompletedSoFar(checks[c]) => checks[c].polls <= 1)
  /\ [][\A c \in DOMAIN checks :
          (checks[c].pc = "poll" /\ OnlyCompletedSoFar(checks'[c]) /\ checks'[c] # checks[c])
          => /\ checks'[c].pc = "responded"
             /\ checks'[c].response.data
                  \in { b.data : b \in { x \in PollStatusBodies : x.status = "completed" } }]_vars

\* C39: the page never holds more than one element with the id
\* ecoshop-sustainability-badge, however the calls of
\* displaySustainabilityBadge interleave.
C39_AtMostOneBadgeElement == Len(pageBadges) <= 1

\* C40: scrapedProductsHistory never holds more than HistoryLimit entries and
\* only products with a brand or a name; the receipt of a check for such a
\* product puts it in front of the earlier entries, which keep their order,
\* and getMostRecentProductInfo then answers with it; no other step changes
\* the history, and with an empty history the answer is a failure.
C40_HistoryNewestFirst ==
  /\ [](/\ Len(scrapedProductsHistory) <= HistoryLimit
        /\ \A i \in 1..Len(scrapedProductsHistory) : ~EmptyProduct(scrapedProductsHistory[i])
        /\ scrapedProductsHistory = <<>> => ~getMostRecentProductInfo.success)
  /\ [][\A c \in DOMAIN checks :
          Received(c)
          => IF EmptyProduct(checks[c].info)
             THEN UNCHANGED scrapedProductsHistory
             ELSE /\ getMostRecentProductInfo'.success
                  /\ getMostRecentProductInfo'.product = checks[c].info
                  /\ Len(scrapedProductsHistory') =
                       IF Len(scrapedProductsHistory) < HistoryLimit
                       THEN Len(scrapedProductsHistory) + 1 ELSE HistoryLimit
                  /\ \A i \in 2..Len(scrapedProductsHistory') :
                        scrapedProductsHistory'[i] = scrapedProductsHistory[i - 1]]_vars
  /\ [][(\A c \in DOMAIN checks : ~Received(c)) => UNCHANGED scrapedProductsHistory]_vars

C40_Witness ==
  /\ Len(scrapedProductsHistory) = HistoryLimit
  /\ scrapedProductsHistory[1] = extractProductInfo(PageNameOnly)
  /\ scrapedProductsHistory[2] = extractProductInfo(PageS)
  /\ scrapedProductsHistory[HistoryLimit] = extractProductInfo(PageLower)

====
